---- MODULE Spec2Model ----
(***************************************************************************)
(* A model of tools/m2_viewer.py: the M2 / skin decoders (M2Parser), the   *)
(* animation evaluator (AnimationSystem) and the viewer's main loop        *)
(* (M2ViewerWindow.run / _handle_key).                                     *)
(*                                                                         *)
(* A file is a sequence of bytes (0..255); offset o of the Python buffer   *)
(* is element o+1 of the sequence.  Python integers are unbounded, TLC's   *)
(* are 32-bit: the input files below keep every u32 they hold under 2^31,  *)
(* and TLC stops with an overflow error should a read ever exceed that.    *)
(* Floats are modelled exactly on the values the input files hold (small   *)
(* integers); times are kept in quarter milliseconds because the playback  *)
(* speed moves in steps of 0.25.                                           *)
(***************************************************************************)
EXTENDS Integers, Sequences, FiniteSets, TLC

VARIABLES
    pc,       \* where the viewer is: "start", "rejected", "crashed", "running", "quit"
    data,     \* the bytes of the M2 file read by run()
    skin,     \* the companion .skin file: [exists, bytes]
    parser,   \* the M2Parser object (None before it is constructed)
    anim,     \* the AnimationSystem object (None before it is constructed)
    skinned,  \* the positions last handed to the renderer
    lastOp    \* the last operation and the argument it was given

vars == <<pc, data, skin, parser, anim, skinned, lastOp>>

(***************************************************************************)
(* Bounds of the model.                                                    *)
(***************************************************************************)
MaxTickMs == 17
MaxSpeedSteps == 1
MaxSeqArg == 3

(***************************************************************************)
(* Generic helpers.                                                        *)
(***************************************************************************)
Min(a, b) == IF a <= b THEN a ELSE b
Max(a, b) == IF a >= b THEN a ELSE b
Abs(a) == IF a < 0 THEN -a ELSE a

SetMax(S) == CHOOSE x \in S : \A y \in S : y <= x

RECURSIVE Pow2(_)
Pow2(n) == IF n = 0 THEN 1 ELSE 2 * Pow2(n - 1)

\* the sequence a function over 1..n denotes, with its elements evaluated once
AsSeq(f) == f \o <<>>

(***************************************************************************)
(* struct.unpack_from / np.frombuffer over a bytes object.                 *)
(***************************************************************************)
\* struct.unpack_from raises struct.error unless off + size <= len(buffer)
CanUnpack(buf, off, size) == off >= 0 /\ off + size <= Len(buf)

U8(buf, off) == buf[off + 1]
U16(buf, off) == buf[off + 1] + 256 * buf[off + 2]
I16(buf, off) == IF U16(buf, off) >= 32768 THEN U16(buf, off) - 65536 ELSE U16(buf, off)
U32(buf, off) == buf[off + 1] + 256 * buf[off + 2] + 65536 * buf[off + 3]
                 + 16777216 * buf[off + 4]
I32(buf, off) == buf[off + 1] + 256 * buf[off + 2] + 65536 * buf[off + 3]
                 + 16777216 * (IF buf[off + 4] >= 128 THEN buf[off + 4] - 256 ELSE buf[off + 4])

\* IEEE-754 binary32, little-endian.  Integral values of magnitude < 2^24 decode
\* to that integer; any other bit pattern is kept as its four bytes.
F32(buf, off) ==
    LET b0 == buf[off + 1]
        b1 == buf[off + 2]
        b2 == buf[off + 3]
        b3 == buf[off + 4]
        neg == b3 >= 128
        ex == (b3 % 128) * 2 + (b2 \div 128)
        mant == (b2 % 128) * 65536 + b1 * 256 + b0
        sig == 8388608 + mant
    IN  IF ex = 0 /\ mant = 0 THEN 0
        ELSE IF ex >= 127 /\ ex <= 150 /\ sig % Pow2(150 - ex) = 0
             THEN (IF neg THEN -1 ELSE 1) * (sig \div Pow2(150 - ex))
             ELSE [bits |-> <<b0, b1, b2, b3>>]

Vec3F(buf, off) == <<F32(buf, off), F32(buf, off + 4), F32(buf, off + 8)>>

(***************************************************************************)
(* M2Parser: header tables and the header array decoders.                  *)
(***************************************************************************)
offsets_wotlk ==
    [nGlobalSeq |-> 20, ofsGlobalSeq |-> 24, nAnims |-> 28, ofsAnims |-> 32,
     nBones |-> 44, ofsBones |-> 48, nVerts |-> 60, ofsVerts |-> 64,
     nTextures |-> 80, ofsTextures |-> 84,
     nTextureLookup |-> 128, ofsTextureLookup |-> 132,
     nBoneLookup |-> 120, ofsBoneLookup |-> 124]

offsets_vanilla ==
    [nGlobalSeq |-> 20, ofsGlobalSeq |-> 24, nAnims |-> 28, ofsAnims |-> 32,
     nBones |-> 52, ofsBones |-> 56, nVerts |-> 68, ofsVerts |-> 72,
     nTextures |-> 92, ofsTextures |-> 96,
     nTextureLookup |-> 148, ofsTextureLookup |-> 152,
     nBoneLookup |-> 140, ofsBoneLookup |-> 144]

hdr(is_vanilla, field_name) ==
    (IF is_vanilla THEN offsets_vanilla ELSE offsets_wotlk)[field_name]

\* _read_u32: an unchecked struct.unpack_from
read_u32_ok(buf, off) == CanUnpack(buf, off, 4)

\* _read_m2array: [ok, n, o]; ok = FALSE when one of the two reads raises
read_m2array(self, nName, ofsName) ==
    LET n_off == hdr(self.is_vanilla, nName)
        o_off == hdr(self.is_vanilla, ofsName)
    IN  IF read_u32_ok(self.data, n_off) /\ read_u32_ok(self.data, o_off)
        THEN [ok |-> TRUE, n |-> U32(self.data, n_off), o |-> U32(self.data, o_off)]
        ELSE [ok |-> FALSE, n |-> 0, o |-> 0]

Raise(self) == [self EXCEPT !.raised = TRUE]

\* struct.unpack_from(f"<{n}I", data, ofs) and the per-record loops: n elements of
\* `size` bytes each, starting at ofs (the caller has checked that they fit)
UnpackMany(self, ofs, n, size, Elem(_, _)) ==
    AsSeq([i \in 1..n |-> Elem(self.data, ofs + (i - 1) * size)])

parse_global_sequences(self) ==
    LET a == read_m2array(self, "nGlobalSeq", "ofsGlobalSeq")
    IN  IF ~a.ok THEN Raise(self)
        ELSE IF a.n = 0 \/ a.n > 10000 \/ a.o + a.n * 4 > Len(self.data) THEN self
        ELSE IF ~CanUnpack(self.data, a.o, a.n * 4) THEN Raise(self)
        ELSE [self EXCEPT !.global_sequences = UnpackMany(self, a.o, a.n, 4, U32)]

BoneWeights(buf, off) == <<U8(buf, off), U8(buf, off + 1), U8(buf, off + 2), U8(buf, off + 3)>>
Vec2F(buf, off) == <<F32(buf, off), F32(buf, off + 4)>>
VertPos(buf, off) == Vec3F(buf, off)
VertWeights(buf, off) == BoneWeights(buf, off + 12)
VertIndices(buf, off) == BoneWeights(buf, off + 16)
VertNormal(buf, off) == Vec3F(buf, off + 20)
VertUV(buf, off) == Vec2F(buf, off + 32)

parse_vertices(self) ==
    LET a == read_m2array(self, "nVerts", "ofsVerts")
    IN  IF ~a.ok THEN Raise(self)
        ELSE IF a.n = 0 \/ a.n > 500000 \/ a.o + a.n * 48 > Len(self.data) THEN self
        ELSE IF ~CanUnpack(self.data, a.o, a.n * 48) THEN Raise(self)
        ELSE [self EXCEPT !.positions = UnpackMany(self, a.o, a.n, 48, VertPos),
                          !.normals = UnpackMany(self, a.o, a.n, 48, VertNormal),
                          !.uvs = UnpackMany(self, a.o, a.n, 48, VertUV),
                          !.bone_weights = UnpackMany(self, a.o, a.n, 48, VertWeights),
                          !.bone_indices = UnpackMany(self, a.o, a.n, 48, VertIndices)]

\* raw.split(b"\x00", 1)[0].decode("ascii", errors="replace"): the bytes before the
\* first NUL, every byte >= 128 replaced by U+FFFD
RECURSIVE CString(_, _, _)
CString(buf, off, n) ==
    IF n = 0 \/ buf[off + 1] = 0 THEN <<>>
    ELSE <<IF buf[off + 1] >= 128 THEN 65533 ELSE buf[off + 1]>>
         \o CString(buf, off + 1, n - 1)

Texture(buf, base) ==
    LET tex_type == U32(buf, base)
        tex_flags == U32(buf, base + 4)
        name_len == U32(buf, base + 8)
        name_ofs == U32(buf, base + 12)
    IN  [type |-> tex_type, flags |-> tex_flags,
         filename |-> IF tex_type = 0 /\ name_len > 1 /\ name_ofs + name_len <= Len(buf)
                      THEN CString(buf, name_ofs, name_len) ELSE <<>>]

parse_textures(self) ==
    LET a == read_m2array(self, "nTextures", "ofsTextures")
    IN  IF ~a.ok THEN Raise(self)
        ELSE IF a.n = 0 \/ a.n > 1000 \/ a.o + a.n * 16 > Len(self.data) THEN self
        ELSE IF ~CanUnpack(self.data, a.o, a.n * 16) THEN Raise(self)
        ELSE [self EXCEPT !.textures = UnpackMany(self, a.o, a.n, 16, Texture)]

parse_texture_lookup(self) ==
    LET a == read_m2array(self, "nTextureLookup", "ofsTextureLookup")
    IN  IF ~a.ok THEN Raise(self)
        ELSE IF a.n = 0 \/ a.n > 10000 \/ a.o + a.n * 2 > Len(self.data) THEN self
        ELSE IF ~CanUnpack(self.data, a.o, a.n * 2) THEN Raise(self)
        ELSE [self EXCEPT !.texture_lookup = UnpackMany(self, a.o, a.n, 2, U16)]

parse_bone_lookup(self) ==
    LET a == read_m2array(self, "nBoneLookup", "ofsBoneLookup")
    IN  IF ~a.ok THEN Raise(self)
        ELSE IF a.n = 0 \/ a.n > 10000 \/ a.o + a.n * 2 > Len(self.data) THEN self
        ELSE IF ~CanUnpack(self.data, a.o, a.n * 2) THEN Raise(self)
        ELSE [self EXCEPT !.bone_lookup = UnpackMany(self, a.o, a.n, 2, U16)]

AnimVanilla(buf, base) ==
    [anim_id |-> U16(buf, base), variation |-> U16(buf, base + 2),
     duration |-> U32(buf, base + 8) - U32(buf, base + 4),
     speed |-> F32(buf, base + 12), flags |-> U32(buf, base + 16)]

AnimWotlk(buf, base) ==
    [anim_id |-> U16(buf, base), variation |-> U16(buf, base + 2),
     duration |-> U32(buf, base + 4),
     speed |-> F32(buf, base + 8), flags |-> U32(buf, base + 12)]

parse_animations(self) ==
    LET a == read_m2array(self, "nAnims", "ofsAnims")
        seq_size == IF self.is_vanilla THEN 68 ELSE 64
    IN  IF ~a.ok THEN Raise(self)
        ELSE IF a.n = 0 \/ a.n > 5000 THEN self
        ELSE IF a.o + a.n * seq_size > Len(self.data) THEN self
        ELSE IF ~CanUnpack(self.data, a.o, a.n * seq_size) THEN Raise(self)
        ELSE IF self.is_vanilla
             THEN [self EXCEPT !.animations = UnpackMany(self, a.o, a.n, seq_size, AnimVanilla)]
             ELSE [self EXCEPT !.animations = UnpackMany(self, a.o, a.n, seq_size, AnimWotlk)]

(***************************************************************************)
(* Animation tracks.  A key array is [dim, v]: dim is len(array.shape) of   *)
(* the NumPy array (np.empty(0) has dim 1, a reshaped (n, 3) array dim 2).  *)
(***************************************************************************)
M2Track == [interp |-> 0, global_sequence |-> -1, timestamps |-> <<>>, keys |-> <<>>]

EmptyKeys == [dim |-> 1, v |-> <<>>]

\* (v < 0 ? v + 32768 : v - 32767) / 32767.0, kept as the numerator over 32767
Decompress(v) == IF v < 0 THEN v + 32768 ELSE v - 32767

Sign(v) == IF v < 0 THEN -1 ELSE IF v > 0 THEN 1 ELSE 0

\* result / max(norm(result), 1e-10): exact for the zero vector and for a vector
\* with one nonzero component; any other vector is kept unnormalised
NormalizeQuat(nv) ==
    IF Cardinality({i \in 1..4 : nv[i] # 0}) <= 1
    THEN AsSeq([i \in 1..4 |-> Sign(nv[i])])
    ELSE [unnormalized |-> nv]

CompressedQuat(buf, off) ==
    NormalizeQuat(AsSeq([i \in 1..4 |-> Decompress(I16(buf, off + 2 * (i - 1)))]))

Quat4F(buf, off) == <<F32(buf, off), F32(buf, off + 4), F32(buf, off + 8), F32(buf, off + 12)>>

\* one timestamp sub-array of the nested (WotLK) shape
TimestampSlotWotlk(buf, ts_hdr) ==
    IF ts_hdr + 8 > Len(buf) THEN <<>>
    ELSE LET sub_count == U32(buf, ts_hdr)
             sub_ofs == U32(buf, ts_hdr + 4)
         IN  IF sub_count > 50000 \/ sub_ofs + sub_count * 4 > Len(buf) THEN <<>>
             ELSE AsSeq([i \in 1..sub_count |-> U32(buf, sub_ofs + (i - 1) * 4)])

\* one key sub-array of the nested (WotLK) shape
KeySlotWotlk(buf, key_hdr, key_size, key_dtype) ==
    IF key_hdr + 8 > Len(buf) THEN EmptyKeys
    ELSE LET sub_count == U32(buf, key_hdr)
             sub_ofs == U32(buf, key_hdr + 4)
         IN  IF sub_count > 50000 \/ sub_ofs + sub_count * key_size > Len(buf) THEN EmptyKeys
             ELSE IF key_dtype = "compressed_quat"
                  THEN [dim |-> 2,
                        v |-> AsSeq([i \in 1..sub_count |-> CompressedQuat(buf, sub_ofs + (i - 1) * 8)])]
             ELSE IF key_dtype = "vec3"
                  THEN [dim |-> 2,
                        v |-> AsSeq([i \in 1..sub_count |-> Vec3F(buf, sub_ofs + (i - 1) * 12)])]
             ELSE [dim |-> 1,
                   v |-> AsSeq([i \in 1..sub_count |-> F32(buf, sub_ofs + (i - 1) * 4)])]

parse_track_wotlk(buf, base, key_size, key_dtype) ==
    IF base + 20 > Len(buf) THEN M2Track
    ELSE LET interp == I16(buf, base)
             global_seq == I16(buf, base + 2)
             n_ts == U32(buf, base + 4)
             ofs_ts == U32(buf, base + 8)
             n_keys == U32(buf, base + 12)
             ofs_keys == U32(buf, base + 16)
         IN  IF n_ts > 5000 \/ n_keys > 5000
             THEN [M2Track EXCEPT !.interp = interp, !.global_sequence = global_seq]
             ELSE [interp |-> interp, global_sequence |-> global_seq,
                   timestamps |-> AsSeq([s \in 1..n_ts |->
                                      TimestampSlotWotlk(buf, ofs_ts + (s - 1) * 8)]),
                   keys |-> AsSeq([s \in 1..n_keys |->
                                KeySlotWotlk(buf, ofs_keys + (s - 1) * 8, key_size, key_dtype)])]

\* a[start:end] of a Python sequence, 0 <= start, end <= len(a)
Slice(a, start, end) == AsSeq([i \in 1..Max(0, end - start) |-> a[start + i]])

\* the flat key array of the flat (vanilla) shape
FlatKeysVanilla(buf, n_keys, ofs_keys, key_size, key_dtype) ==
    IF key_dtype = "c4quat"
    THEN IF n_keys > 0 /\ ofs_keys + n_keys * 16 <= Len(buf)
         THEN [dim |-> 2, v |-> AsSeq([i \in 1..n_keys |-> Quat4F(buf, ofs_keys + (i - 1) * 16)])]
         ELSE [dim |-> 1, v |-> <<>>]
    ELSE IF key_dtype = "vec3"
    THEN IF n_keys > 0 /\ ofs_keys + n_keys * 12 <= Len(buf)
         THEN [dim |-> 2, v |-> AsSeq([i \in 1..n_keys |-> Vec3F(buf, ofs_keys + (i - 1) * 12)])]
         ELSE [dim |-> 2, v |-> <<>>]
    ELSE IF n_keys > 0 /\ ofs_keys + n_keys * key_size <= Len(buf)
         THEN [dim |-> 1, v |-> AsSeq([i \in 1..n_keys |-> F32(buf, ofs_keys + (i - 1) * 4)])]
         ELSE [dim |-> 1, v |-> <<>>]

\* a range read as a count: the slot starts at the head of the flat arrays
RangeSlotFromHead(buf, rng, all_ts, all_keys_flat) ==
    IF U32(buf, rng + 4) > U32(buf, rng) /\ U32(buf, rng + 4) <= Len(all_ts)
    THEN [ts |-> Slice(all_ts, 0, U32(buf, rng + 4)),
          keys |-> IF U32(buf, rng + 4) <= Len(all_keys_flat.v)
                   THEN [dim |-> all_keys_flat.dim,
                         v |-> Slice(all_keys_flat.v, 0, U32(buf, rng + 4))]
                   ELSE EmptyKeys]
    ELSE [ts |-> <<>>, keys |-> EmptyKeys]

\* one M2Range of the flat (vanilla) shape: the slot of timestamps and of keys
RangeSlotVanilla(buf, rng, all_ts, all_keys_flat) ==
    LET rng_start == U32(buf, rng)
        rng_end == U32(buf, rng + 4)
    IN  IF rng_end > rng_start /\ rng_end <= Len(all_ts)
        THEN [ts |-> Slice(all_ts, rng_start, rng_end),
              keys |-> IF rng_end <= Len(all_keys_flat.v)
                       THEN [dim |-> all_keys_flat.dim,
                             v |-> Slice(all_keys_flat.v, rng_start, rng_end)]
                       ELSE EmptyKeys]
        ELSE [ts |-> <<>>, keys |-> EmptyKeys]

\* all_ts: the flat timestamp array, empty when it does not fit
FlatTimestampsVanilla(buf, n_ts, ofs_ts) ==
    IF n_ts > 0 /\ ofs_ts + n_ts * 4 <= Len(buf)
    THEN AsSeq([i \in 1..n_ts |-> U32(buf, ofs_ts + (i - 1) * 4)])
    ELSE <<>>

SlotsOf(slots) ==
    [timestamps |-> AsSeq([r \in 1..Len(slots) |-> slots[r].ts]),
     keys |-> AsSeq([r \in 1..Len(slots) |-> slots[r].keys])]

\* the split of the flat arrays by the ranges, or the single-sequence fallback
SplitVanilla(buf, interp, global_seq, n_ranges, ofs_ranges, all_ts, all_keys_flat) ==
    IF n_ranges > 0 /\ n_ranges < 5000 /\ ofs_ranges + n_ranges * 8 <= Len(buf)
    THEN [interp |-> interp, global_sequence |-> global_seq]
         @@ SlotsOf(AsSeq([r \in 1..n_ranges |->
                RangeSlotVanilla(buf, ofs_ranges + (r - 1) * 8, all_ts, all_keys_flat)]))
    ELSE IF Len(all_ts) > 0
    THEN [interp |-> interp, global_sequence |-> global_seq,
          timestamps |-> <<all_ts>>,
          keys |-> <<IF Len(all_keys_flat.v) > 0 THEN all_keys_flat ELSE EmptyKeys>>]
    ELSE [M2Track EXCEPT !.interp = interp, !.global_sequence = global_seq]

parse_track_vanilla(buf, base, key_size, key_dtype) ==
    IF base + 28 > Len(buf) THEN M2Track
    ELSE LET interp == I16(buf, base)
             global_seq == I16(buf, base + 2)
             n_ranges == U32(buf, base + 4)
             ofs_ranges == U32(buf, base + 8)
             n_ts == U32(buf, base + 12)
             ofs_ts == U32(buf, base + 16)
             n_keys == U32(buf, base + 20)
             ofs_keys == U32(buf, base + 24)
         IN  IF n_ts > 500000 \/ n_keys > 500000
             THEN [M2Track EXCEPT !.interp = interp, !.global_sequence = global_seq]
             ELSE SplitVanilla(buf, interp, global_seq, n_ranges, ofs_ranges,
                               FlatTimestampsVanilla(buf, n_ts, ofs_ts),
                               FlatKeysVanilla(buf, n_keys, ofs_keys, key_size, key_dtype))

(***************************************************************************)
(* The bone table.                                                         *)
(***************************************************************************)
BoneVanilla(buf, base) ==
    [key_bone_id |-> I32(buf, base), flags |-> U32(buf, base + 4),
     parent |-> I16(buf, base + 8),
     translation |-> parse_track_vanilla(buf, base + 12, 12, "vec3"),
     rotation |-> parse_track_vanilla(buf, base + 40, 16, "c4quat"),
     scale |-> parse_track_vanilla(buf, base + 68, 12, "vec3"),
     pivot |-> Vec3F(buf, base + 96)]

BoneWotlk(buf, base) ==
    [key_bone_id |-> I32(buf, base), flags |-> U32(buf, base + 4),
     parent |-> I16(buf, base + 8),
     translation |-> parse_track_wotlk(buf, base + 16, 12, "vec3"),
     rotation |-> parse_track_wotlk(buf, base + 36, 8, "compressed_quat"),
     scale |-> parse_track_wotlk(buf, base + 56, 12, "vec3"),
     pivot |-> Vec3F(buf, base + 76)]

\* the loop of _parse_bones: records 0..n-1 in order, stopping (break) at the first
\* record that does not fit in the buffer
RECURSIVE BoneLoop(_, _, _, _, _, _)
BoneLoop(buf, is_vanilla, ofs, n, i, bones) ==
    LET bone_size == IF is_vanilla THEN 108 ELSE 88
        base == ofs + i * bone_size
    IN  IF i >= n THEN bones
        ELSE IF base + bone_size > Len(buf) THEN bones
        ELSE BoneLoop(buf, is_vanilla, ofs, n, i + 1,
                      Append(bones, IF is_vanilla THEN BoneVanilla(buf, base)
                                    ELSE BoneWotlk(buf, base)))

parse_bones(self) ==
    LET a == read_m2array(self, "nBones", "ofsBones")
    IN  IF ~a.ok THEN Raise(self)
        ELSE IF a.n = 0 \/ a.n > 5000 THEN self
        ELSE [self EXCEPT !.bones = BoneLoop(self.data, self.is_vanilla, a.o, a.n, 0, <<>>)]

(***************************************************************************)
(* M2Parser.__init__ / _parse: the decoders in order; an exception raised   *)
(* by one of them leaves the constructor at once (raised = TRUE).          *)
(***************************************************************************)
NewParser(buf) ==
    [data |-> buf, raised |-> FALSE,
     version |-> U32(buf, 4), is_vanilla |-> U32(buf, 4) <= 256,
     positions |-> <<>>, normals |-> <<>>, uvs |-> <<>>,
     bone_weights |-> <<>>, bone_indices |-> <<>>,
     vertex_lookup |-> <<>>, triangles |-> <<>>, resolved_indices |-> <<>>,
     submeshes |-> <<>>, batches |-> <<>>,
     textures |-> <<>>, texture_lookup |-> <<>>, bone_lookup |-> <<>>,
     bones |-> <<>>, animations |-> <<>>, global_sequences |-> <<>>]

Then(self, Step(_)) == IF self.raised THEN self ELSE Step(self)

parse(self) ==
    Then(Then(Then(Then(Then(Then(parse_global_sequences(self),
        parse_vertices), parse_textures), parse_texture_lookup),
        parse_bone_lookup), parse_animations), parse_bones)

M2Parser(buf) == parse(NewParser(buf))

(***************************************************************************)
(* M2Parser.parse_skin_data.                                               *)
(***************************************************************************)
SkinMagic == <<83, 75, 73, 78>>

Submesh(buf, base) ==
    [vertex_start |-> U16(buf, base + 4), vertex_count |-> U16(buf, base + 6),
     index_start |-> U16(buf, base + 8), index_count |-> U16(buf, base + 10)]

Batch(buf, base) ==
    [submesh_index |-> U16(buf, base + 4), texture_combo_index |-> U16(buf, base + 16)]

\* the fallback vertex count used when the model has no vertices
NoVertsLimit == 65536

U16Array(buf, ofs, n) == AsSeq([i \in 1..n |-> U16(buf, ofs + (i - 1) * 2)])

\* resolved[i] without the comparison against the vertex count
ResolveAnyVertex(vertex_lookup, tri_idx, n_verts) ==
    IF tri_idx < Len(vertex_lookup) THEN vertex_lookup[tri_idx + 1] ELSE 0

\* resolved[i] for one triangle-index entry
Resolve(vertex_lookup, tri_idx, n_verts) ==
    IF tri_idx < Len(vertex_lookup)
    THEN (IF vertex_lookup[tri_idx + 1] < n_verts THEN vertex_lookup[tri_idx + 1] ELSE 0)
    ELSE 0

\* the resolution step without its test that the vertex lookup is non-empty
ResolveWithoutLookup(self, vertex_lookup, triangles) ==
    IF Len(triangles) > 0
    THEN AsSeq([i \in 1..Len(triangles) |->
                  Resolve(vertex_lookup, triangles[i],
                          IF Len(self.positions) > 0 THEN Len(self.positions)
                          ELSE NoVertsLimit)])
    ELSE self.resolved_indices

ResolveIndices(self, vertex_lookup, triangles) ==
    IF Len(triangles) > 0 /\ Len(vertex_lookup) > 0
    THEN LET n_verts == IF Len(self.positions) > 0 THEN Len(self.positions) ELSE NoVertsLimit
         IN  AsSeq([i \in 1..Len(triangles) |-> Resolve(vertex_lookup, triangles[i], n_verts)])
    ELSE self.resolved_indices

\* the two early returns on the vertex-lookup and triangle counts
SkinCountsRejected(n_indices, n_tris) ==
    \/ n_indices = 0 \/ n_indices > 500000
    \/ n_tris = 0 \/ n_tris > 500000

SkinLookupFits(skin_data, n_indices, ofs_indices) ==
    ofs_indices + n_indices * 2 <= Len(skin_data)

SkinTrianglesFit(skin_data, n_tris, ofs_tris) ==
    ofs_tris + n_tris * 2 <= Len(skin_data)

parse_skin_data(self, skin_data) ==
    IF Len(skin_data) < 48 THEN self
    ELSE
    LET off == IF SubSeq(skin_data, 1, 4) = SkinMagic THEN 4 ELSE 0
    IN  IF ~CanUnpack(skin_data, off + 32, 8) THEN Raise(self)
        ELSE
        LET n_indices == U32(skin_data, off)
            ofs_indices == U32(skin_data, off + 4)
            n_tris == U32(skin_data, off + 8)
            ofs_tris == U32(skin_data, off + 12)
            n_submeshes == U32(skin_data, off + 24)
            ofs_submeshes == U32(skin_data, off + 28)
            n_batches == U32(skin_data, off + 32)
            ofs_batches == U32(skin_data, off + 36)
            vertex_lookup == IF SkinLookupFits(skin_data, n_indices, ofs_indices)
                             THEN U16Array(skin_data, ofs_indices, n_indices)
                             ELSE self.vertex_lookup
            triangles == IF SkinTrianglesFit(skin_data, n_tris, ofs_tris)
                         THEN U16Array(skin_data, ofs_tris, n_tris)
                         ELSE self.triangles
            submesh_size == IF self.is_vanilla THEN 32 ELSE 48
        IN  IF SkinCountsRejected(n_indices, n_tris) THEN self
            ELSE [self EXCEPT
                    !.vertex_lookup = vertex_lookup,
                    !.triangles = triangles,
                    !.resolved_indices = ResolveIndices(self, vertex_lookup, triangles),
                    !.submeshes =
                        IF n_submeshes > 0 /\ n_submeshes < 10000
                           /\ ofs_submeshes + n_submeshes * submesh_size <= Len(skin_data)
                        THEN self.submeshes \o
                             AsSeq([i \in 1..n_submeshes |->
                                 Submesh(skin_data, ofs_submeshes + (i - 1) * submesh_size)])
                        ELSE self.submeshes,
                    !.batches =
                        IF n_batches > 0 /\ n_batches < 10000
                           /\ ofs_batches + n_batches * 24 <= Len(skin_data)
                        THEN self.batches \o
                             AsSeq([i \in 1..n_batches |-> Batch(skin_data, ofs_batches + (i - 1) * 24)])
                        ELSE self.batches]

(***************************************************************************)
(* Exact arithmetic: a number is a reduced fraction <<n, d>>, d > 0.        *)
(***************************************************************************)
RECURSIVE GCD(_, _)
GCD(a, b) == IF b = 0 THEN a ELSE GCD(b, a % b)

Rat(n, d) ==
    LET g == GCD(Abs(n), Abs(d))
        sg == IF d < 0 THEN -1 ELSE 1
    IN  IF g = 0 THEN <<0, 1>> ELSE <<sg * (n \div g), sg * (d \div g)>>

R(n) == <<n, 1>>
RAdd(a, b) == Rat(a[1] * b[2] + b[1] * a[2], a[2] * b[2])
RSub(a, b) == Rat(a[1] * b[2] - b[1] * a[2], a[2] * b[2])
RMul(a, b) == Rat(a[1] * b[1], a[2] * b[2])
RDiv(a, b) == Rat(a[1] * b[2], a[2] * b[1])
RNeg(a) == <<-a[1], a[2]>>
RLess(a, b) == a[1] * b[2] < b[1] * a[2]
RAbs(a) == <<Abs(a[1]), a[2]>>
RVec(v) == AsSeq([i \in DOMAIN v |-> R(v[i])])

(***************************************************************************)
(* Matrix utilities: a 4x4 matrix is a tuple of four rows of four numbers.  *)
(***************************************************************************)
Eye4 == AsSeq([i \in 1..4 |-> AsSeq([j \in 1..4 |-> IF i = j THEN R(1) ELSE R(0)])])

translate(tx, ty, tz) ==
    [Eye4 EXCEPT ![1][4] = tx, ![2][4] = ty, ![3][4] = tz]

scale_mat4(sx, sy, sz) ==
    [Eye4 EXCEPT ![1][1] = sx, ![2][2] = sy, ![3][3] = sz]

Two == R(2)

quat_to_mat4(q) ==
    LET x == q[1]
        y == q[2]
        z == q[3]
        w == q[4]
        xx == RMul(x, x)
        yy == RMul(y, y)
        zz == RMul(z, z)
        xy == RMul(x, y)
        xz == RMul(x, z)
        yz == RMul(y, z)
        xw == RMul(x, w)
        yw == RMul(y, w)
        zw == RMul(z, w)
    IN  [Eye4 EXCEPT
           ![1][1] = RSub(R(1), RMul(Two, RAdd(yy, zz))),
           ![1][2] = RMul(Two, RSub(xy, zw)),
           ![1][3] = RMul(Two, RAdd(xz, yw)),
           ![2][1] = RMul(Two, RAdd(xy, zw)),
           ![2][2] = RSub(R(1), RMul(Two, RAdd(xx, zz))),
           ![2][3] = RMul(Two, RSub(yz, xw)),
           ![3][1] = RMul(Two, RSub(xz, yw)),
           ![3][2] = RMul(Two, RAdd(yz, xw)),
           ![3][3] = RSub(R(1), RMul(Two, RAdd(xx, yy)))]

Dot4(a, b) ==
    RAdd(RAdd(RMul(a[1], b[1]), RMul(a[2], b[2])), RAdd(RMul(a[3], b[3]), RMul(a[4], b[4])))

\* a @ b
MatMul(a, b) ==
    AsSeq([i \in 1..4 |-> AsSeq([j \in 1..4 |-> Dot4(a[i], AsSeq([k \in 1..4 |-> b[k][j]]))])])

\* m @ v for a 4-vector v
MatVec(m, v) == AsSeq([i \in 1..4 |-> Dot4(m[i], v)])

\* slerp on the cases that are exact: equal or opposite keys (the near-parallel
\* branch) and t = 0; every other case is kept as the unevaluated term
slerp(q0, q1, t) ==
    IF Dot4(q0, q0) = R(1)
       /\ \/ t = R(0)
          \/ q0 = (IF RLess(Dot4(q0, q1), R(0)) THEN AsSeq([i \in 1..4 |-> RNeg(q1[i])])
                   ELSE q1)
    THEN q0
    ELSE [slerp |-> <<q0, q1, t>>]

(***************************************************************************)
(* AnimationSystem.  time_ms is held in quarter milliseconds and speed in   *)
(* quarters (speed 1.0 is 4), so that every value the viewer can produce    *)
(* is an integer; a timestamp ts (ms) is QuartersPerMs * ts on that scale.  *)
(***************************************************************************)
QuartersPerMs == 4

AnimationSystem ==
    [bone_matrices |-> <<>>, current_seq |-> 0, playing |-> TRUE,
     speed |-> QuartersPerMs, time_ms |-> 0]

\* a set_sequence that does not clamp
set_sequence_unclamped(self, p, idx) ==
    [self EXCEPT !.current_seq = idx, !.time_ms = 0]

set_sequence(self, p, idx) ==
    [self EXCEPT !.current_seq = Max(0, Min(idx, Len(p.animations) - 1)),
                 !.time_ms = 0]

\* a clock step that leaves the playback speed out
AdvanceTimeUnscaled(self, p, dt_ms) ==
    IF self.playing /\ Len(p.animations) > 0
       /\ p.animations[self.current_seq + 1].duration > 0
    THEN (self.time_ms + dt_ms * QuartersPerMs)
             % (QuartersPerMs * p.animations[self.current_seq + 1].duration)
    ELSE self.time_ms

\* a clock step that runs whether or not the animation is playing
AdvanceTimeWhilePaused(self, p, dt_ms) ==
    IF Len(p.animations) > 0 /\ p.animations[self.current_seq + 1].duration > 0
    THEN (self.time_ms + dt_ms * self.speed)
             % (QuartersPerMs * p.animations[self.current_seq + 1].duration)
    ELSE self.time_ms

\* the clock step of update(): dt_ms is dt * 1000
AdvanceTime(self, p, dt_ms) ==
    IF self.playing /\ Len(p.animations) > 0
    THEN LET duration == p.animations[self.current_seq + 1].duration
         IN  IF duration > 0
             THEN (self.time_ms + dt_ms * self.speed) % (QuartersPerMs * duration)
             ELSE self.time_ms
    ELSE self.time_ms

\* a _get_time_and_seq that keeps the active sequence's slot
get_time_and_seq_of_clip(p, track, seq_idx, time_ms) ==
    IF track.global_sequence >= 0 /\ track.global_sequence < Len(p.global_sequences)
    THEN LET gs_dur == p.global_sequences[track.global_sequence + 1]
         IN  [seq |-> seq_idx,
              time |-> IF gs_dur > 0 THEN time_ms % (QuartersPerMs * gs_dur) ELSE 0]
    ELSE [seq |-> seq_idx, time |-> time_ms]

get_time_and_seq(p, track, seq_idx, time_ms) ==
    IF track.global_sequence >= 0 /\ track.global_sequence < Len(p.global_sequences)
    THEN LET gs_dur == p.global_sequences[track.global_sequence + 1]
         IN  [seq |-> 0,
              time |-> IF gs_dur > 0 THEN time_ms % (QuartersPerMs * gs_dur) ELSE 0]
    ELSE [seq |-> seq_idx, time |-> time_ms]

\* np.searchsorted(ts, t, side='right'): NumPy's binary search, which does not
\* assume more than it finds (ts need not be sorted)
RECURSIVE BinSearchRight(_, _, _, _)
BinSearchRight(ts, t, min_idx, max_idx) ==
    IF min_idx >= max_idx THEN min_idx
    ELSE LET mid_idx == min_idx + ((max_idx - min_idx) \div 2)
         IN  IF t < QuartersPerMs * ts[mid_idx + 1]
             THEN BinSearchRight(ts, t, min_idx, mid_idx)
             ELSE BinSearchRight(ts, t, mid_idx + 1, max_idx)

searchsorted_right(ts, t) == BinSearchRight(ts, t, 0, Len(ts))

\* idx = max(0, min(searchsorted - 1, len(ts) - 2))
BracketIndex(ts, t) == Max(0, Min(searchsorted_right(ts, t) - 1, Len(ts) - 2))

\* frac = (t - t0) / (t1 - t0) if t1 != t0 else 0.0
Frac(ts, idx, t) ==
    LET t0 == ts[idx + 1]
        t1 == ts[idx + 2]
    IN  IF t1 # t0 THEN Rat(t - QuartersPerMs * t0, QuartersPerMs * (t1 - t0)) ELSE R(0)

\* keys[idx] * (1.0 - frac) + keys[idx + 1] * frac
Lerp(k0, k1, frac) ==
    AsSeq([i \in DOMAIN k0 |-> RAdd(RMul(R(k0[i]), RSub(R(1), frac)), RMul(R(k1[i]), frac))])

Value(v) == [raised |-> FALSE, v |-> v]
IndexError == [raised |-> TRUE, v |-> <<>>]

\* the part of _interp_vec3 / _interp_quat the two share; Blend is the last line
Bracket(interp, ts, keys, t, idx, Blend(_, _, _)) ==
    IF idx >= Len(keys) THEN IndexError
    ELSE IF interp = 0 THEN Value(RVec(keys[idx + 1]))
    ELSE IF idx + 1 >= Len(keys) THEN IndexError
    ELSE Value(Blend(keys[idx + 1], keys[idx + 2], Frac(ts, idx, t)))

InterpKeys(interp, ts, keys, t, default, Blend(_, _, _)) ==
    IF Len(ts) = 0 \/ Len(keys.v) = 0 THEN Value(default)
    ELSE IF keys.dim = 1 THEN Value(default)
    ELSE IF t <= QuartersPerMs * ts[1] THEN Value(RVec(keys.v[1]))
    ELSE IF t >= QuartersPerMs * ts[Len(ts)] THEN Value(RVec(keys.v[Len(keys.v)]))
    ELSE Bracket(interp, ts, keys.v, t, BracketIndex(ts, t), Blend)

InterpAt(track, r, default, Blend(_, _, _)) ==
    IF r.seq >= Len(track.timestamps) \/ r.seq >= Len(track.keys) THEN Value(default)
    ELSE InterpKeys(track.interp, track.timestamps[r.seq + 1], track.keys[r.seq + 1],
                    r.time, default, Blend)

Interp(p, track, seq_idx, time_ms, default, Blend(_, _, _)) ==
    InterpAt(track, get_time_and_seq(p, track, seq_idx, time_ms), default, Blend)

\* an interpolation without the two tests against the first and the last
\* timestamp: every time goes through the bracket search
InterpKeysInside(interp, ts, keys, t, default) ==
    IF Len(ts) = 0 \/ Len(keys.v) = 0 THEN Value(default)
    ELSE IF keys.dim = 1 THEN Value(default)
    ELSE Bracket(interp, ts, keys.v, t, BracketIndex(ts, t), Lerp)

InterpAtInside(track, r, default) ==
    IF r.seq >= Len(track.timestamps) \/ r.seq >= Len(track.keys) THEN Value(default)
    ELSE InterpKeysInside(track.interp, track.timestamps[r.seq + 1], track.keys[r.seq + 1],
                          r.time, default)

interp_vec3_inside(p, track, seq_idx, time_ms, default) ==
    InterpAtInside(track, get_time_and_seq(p, track, seq_idx, time_ms), default)

interp_vec3(p, track, seq_idx, time_ms, default) ==
    Interp(p, track, seq_idx, time_ms, default, Lerp)

SlerpKeys(k0, k1, frac) == slerp(RVec(k0), RVec(k1), frac)

interp_quat(p, track, seq_idx, time_ms) ==
    Interp(p, track, seq_idx, time_ms, RVec(<<0, 0, 0, 1>>), SlerpKeys)

\* local = T(pivot) * T(trans) * R(rot) * S(scl) * T(-pivot)
LocalMatrix(pivot, trans, rot, scl) ==
    MatMul(MatMul(MatMul(MatMul(translate(R(pivot[1]), R(pivot[2]), R(pivot[3])),
                                translate(trans[1], trans[2], trans[3])),
                         quat_to_mat4(rot)),
                  scale_mat4(scl[1], scl[2], scl[3])),
           translate(R(-pivot[1]), R(-pivot[2]), R(-pivot[3])))

\* the local matrix of the three interpolated values, unless one of them raised
Compose(pivot, trans, rot, scl) ==
    IF trans.raised \/ rot.raised \/ scl.raised THEN IndexError
    ELSE Value(LocalMatrix(pivot, trans.v, rot.v, scl.v))

eval_bone(p, bone, seq_idx, time_ms) ==
    Compose(bone.pivot,
            interp_vec3(p, bone.translation, seq_idx, time_ms, RVec(<<0, 0, 0>>)),
            interp_quat(p, bone.rotation, seq_idx, time_ms),
            interp_vec3(p, bone.scale, seq_idx, time_ms, RVec(<<1, 1, 1>>)))

\* a world matrix that composes every bone with the first bone's matrix
WorldMatrixUnderFirst(bone, n_bones, mats, local) == MatMul(mats[1], local)

\* one bone's world matrix, from the matrices as they stand when it is reached
WorldMatrix(bone, n_bones, mats, local) ==
    IF bone.parent >= 0 /\ bone.parent < n_bones
    THEN MatMul(mats[bone.parent + 1], local)
    ELSE local

\* the loop over the bones, in array order, writing bone_matrices in place; an
\* exception leaves the matrices written so far
RECURSIVE BoneMatrixLoop(_, _, _, _, _), BoneMatrixStep(_, _, _, _, _, _)
BoneMatrixLoop(p, seq_idx, t, i, mats) ==
    IF i > Len(p.bones) THEN [raised |-> FALSE, m |-> mats]
    ELSE BoneMatrixStep(p, seq_idx, t, i, mats, eval_bone(p, p.bones[i], seq_idx, t))

BoneMatrixStep(p, seq_idx, t, i, mats, local) ==
    IF local.raised THEN [raised |-> TRUE, m |-> mats]
    ELSE BoneMatrixLoop(p, seq_idx, t, i + 1,
             [mats EXCEPT ![i] = WorldMatrix(p.bones[i], Len(p.bones), mats, local.v)])

\* update(dt): [raised, self]
\* what update leaves behind: the clock at t and the matrices of the loop r
Updated(self, t, r) ==
    [raised |-> r.raised, self |-> [self EXCEPT !.time_ms = t, !.bone_matrices = r.m]]

UpdateAt(self, p, t) ==
    Updated(self, t,
            BoneMatrixLoop(p, self.current_seq, t, 1,
                           IF Len(self.bone_matrices) = 0
                           THEN AsSeq([i \in 1..Len(p.bones) |-> Eye4])
                           ELSE self.bone_matrices))

update(self, p, dt_ms) ==
    IF Len(p.bones) = 0 THEN [raised |-> FALSE, self |-> self]
    ELSE UpdateAt(self, p, AdvanceTime(self, p, dt_ms))

(***************************************************************************)
(* AnimationSystem.skin_vertices.                                          *)
(***************************************************************************)
\* w > 0.001 for w = raw / 255
WeightCounts(raw) == RLess(Rat(1, 1000), Rat(raw, 255))

\* valid2 for one (weight, boneIndex) pair: the lookup slot and the bone exist
PairValid(bi, bone_lookup, n_bones) ==
    bi < Len(bone_lookup) /\ bone_lookup[bi + 1] < n_bones

\* transformed * w
Scaled(v, w) == AsSeq([i \in 1..4 |-> RMul(v[i], w)])

\* a contribution that takes the first bone matrix, whatever the lookup says
ContributionOfFirstBone(mats, pos4, raw, bi, bone_lookup) ==
    IF WeightCounts(raw) /\ PairValid(bi, bone_lookup, Len(mats))
    THEN Scaled(MatVec(mats[1], pos4), Rat(raw, 255))
    ELSE AsSeq([i \in 1..4 |-> R(0)])

\* a contribution that keeps the clamped bone 0 for a pair that is not valid
ContributionClamped(mats, pos4, raw, bi, bone_lookup) ==
    IF WeightCounts(raw)
    THEN Scaled(MatVec(mats[IF PairValid(bi, bone_lookup, Len(mats))
                            THEN bone_lookup[bi + 1] + 1 ELSE 1], pos4),
                Rat(raw, 255))
    ELSE AsSeq([i \in 1..4 |-> R(0)])

\* the weighted, transformed homogeneous position one pair adds to result
Contribution(mats, pos4, raw, bi, bone_lookup) ==
    IF WeightCounts(raw) /\ PairValid(bi, bone_lookup, Len(mats))
    THEN Scaled(MatVec(mats[bone_lookup[bi + 1] + 1], pos4), Rat(raw, 255))
    ELSE AsSeq([i \in 1..4 |-> R(0)])

VecAdd(a, b) == AsSeq([i \in DOMAIN a |-> RAdd(a[i], b[i])])

\* np.where(np.abs(w_col) > 0.001, w_col, 1.0) and the division
DivideBy(result, w_col) ==
    <<RDiv(result[1], w_col), RDiv(result[2], w_col), RDiv(result[3], w_col)>>

Dehomogenize(result) ==
    DivideBy(result, IF RLess(Rat(1, 1000), RAbs(result[4])) THEN result[4] ELSE R(1))

Sum4(c) == VecAdd(VecAdd(c[1], c[2]), VecAdd(c[3], c[4]))

SkinVertex(mats, pos, weights, indices, bone_lookup) ==
    Dehomogenize(Sum4(AsSeq([j \in 1..4 |->
        Contribution(mats, <<R(pos[1]), R(pos[2]), R(pos[3]), R(1)>>,
                     weights[j], indices[j], bone_lookup)])))

\* skinning that returns a position only for the vertices with a weight that counts
skin_vertices_of_weighted(mats, positions, bone_weights, bone_indices, bone_lookup) ==
    IF Len(mats) = 0 \/ Len(bone_lookup) = 0
    THEN AsSeq([v \in 1..Len(positions) |-> RVec(positions[v])])
    ELSE SelectSeq(AsSeq([v \in 1..Len(positions) |->
                     IF \E j \in 1..4 : WeightCounts(bone_weights[v][j])
                     THEN SkinVertex(mats, positions[v], bone_weights[v], bone_indices[v],
                                     bone_lookup)
                     ELSE <<>>]),
                   LAMBDA r : r # <<>>)

skin_vertices(mats, positions, bone_weights, bone_indices, bone_lookup) ==
    IF Len(mats) = 0 \/ Len(bone_lookup) = 0
    THEN AsSeq([v \in 1..Len(positions) |-> RVec(positions[v])])
    ELSE AsSeq([v \in 1..Len(positions) |->
             SkinVertex(mats, positions[v], bone_weights[v], bone_indices[v], bone_lookup)])

(***************************************************************************)
(* Input files.  The viewer reads whatever bytes the file holds; the files  *)
(* below are built from a header (counts and offsets chosen freely) and a   *)
(* fixed body of well-formed records, cut at any length.                   *)
(***************************************************************************)
E16(v) == <<v % 256, v \div 256>>
ES16(v) == E16(IF v < 0 THEN v + 65536 ELSE v)
E32(v) == <<v % 256, (v \div 256) % 256, (v \div 65536) % 256, v \div 16777216>>

RECURSIVE Log2(_)
Log2(n) == IF n <= 1 THEN 0 ELSE 1 + Log2(n \div 2)

\* the binary32 encoding of a small integer
EF32Bits(sign, ex, mant) ==
    <<mant % 256, (mant \div 256) % 256, (ex % 2) * 128 + (mant \div 65536),
      sign * 128 + (ex \div 2)>>

EF32Exp(n, e) ==
    EF32Bits(IF n < 0 THEN 1 ELSE 0, e + 127, (Abs(n) - Pow2(e)) * Pow2(23 - e))

EF32(n) == IF n = 0 THEN <<0, 0, 0, 0>> ELSE EF32Exp(n, Log2(Abs(n)))

EVec3(v) == EF32(v[1]) \o EF32(v[2]) \o EF32(v[3])
EQuat4F(q) == EF32(q[1]) \o EF32(q[2]) \o EF32(q[3]) \o EF32(q[4])

\* a compressed quaternion whose components are -1, 0 or 1
ECompressed(c) == ES16(IF c = 0 THEN 32767 ELSE IF c = 1 THEN -1 ELSE 0)
ECompressedQuat(q) ==
    ECompressed(q[1]) \o ECompressed(q[2]) \o ECompressed(q[3]) \o ECompressed(q[4])

Zeros(n) == AsSeq([i \in 1..n |-> 0])

\* the first cut bytes of a file; all of it when cut < 0
CutAt(full, cut) == IF cut < 0 THEN full ELSE SubSeq(full, 1, Min(cut, Len(full)))

RECURSIVE Concat(_)
Concat(ss) == IF ss = <<>> THEN <<>> ELSE Head(ss) \o Concat(Tail(ss))

M2Magic == <<77, 68, 50, 48>>

HeaderSize == offsets_vanilla.ofsTextureLookup + 8

HeaderFields ==
    {"nGlobalSeq", "ofsGlobalSeq", "nAnims", "ofsAnims", "nBones", "ofsBones",
     "nVerts", "ofsVerts", "nTextures", "ofsTextures",
     "nTextureLookup", "ofsTextureLookup", "nBoneLookup", "ofsBoneLookup"}

\* ---- the body: one block per array, at the offsets below
GlobalSeqBlock == E32(2) \o E32(0)

AnimRecordWotlk(id, duration) ==
    E16(id) \o E16(0) \o E32(duration) \o EF32(1) \o E32(32) \o Zeros(48)
AnimRecordVanilla(id, start_ts, end_ts) ==
    E16(id) \o E16(0) \o E32(start_ts) \o E32(end_ts) \o EF32(1) \o E32(32) \o Zeros(48)

AnimBlockVanilla ==
    AnimRecordVanilla(0, 1, 4) \o AnimRecordVanilla(4, 2, 1) \o AnimRecordVanilla(5, 0, 2)
AnimBlockWotlk ==
    AnimRecordWotlk(0, 3) \o AnimRecordWotlk(4, 0) \o AnimRecordWotlk(5, 2)

BoneLookupBlock == E16(0) \o E16(1) \o E16(5) \o E16(0)
TextureLookupBlock == E16(0) \o E16(1)

VertexRecord(pos, weights, indices) ==
    EVec3(pos) \o weights \o indices \o EVec3(<<0, 0, 1>>) \o EF32(0) \o EF32(1) \o Zeros(8)

VertexBlock ==
    VertexRecord(<<1, 2, 3>>, <<255, 0, 0, 0>>, <<1, 0, 0, 0>>)
    \o VertexRecord(<<2, 0, -1>>, <<0, 0, 0, 0>>, <<0, 0, 0, 0>>)
    \o VertexRecord(<<0, 1, 0>>, <<128, 127, 0, 0>>, <<0, 2, 0, 0>>)

\* the blocks of the body in file order, with their sizes in bytes: count times
\* record size.  The track data comes last: in a WotLK file five group tables
\* and the arrays they point into, in a vanilla file the range table and the
\* flat arrays.
BlockSizes(van) ==
    <<[name |-> "globalSeq", size |-> 2 * 4],
      [name |-> "anims", size |-> 3 * (IF van THEN 68 ELSE 64)],
      [name |-> "boneLookup", size |-> 4 * 2],
      [name |-> "textureLookup", size |-> 2 * 2],
      [name |-> "textures", size |-> 2 * 16],
      [name |-> "textureNames", size |-> 4],
      [name |-> "verts", size |-> 3 * 48],
      [name |-> "bones", size |-> 2 * (IF van THEN 108 ELSE 88)],
      [name |-> "tsTable", size |-> IF van THEN 0 ELSE 3 * 8],
      [name |-> "vec3Table", size |-> IF van THEN 0 ELSE 3 * 8],
      [name |-> "scaleTable", size |-> IF van THEN 0 ELSE 3 * 8],
      [name |-> "quatTable", size |-> IF van THEN 0 ELSE 3 * 8],
      [name |-> "quatBTable", size |-> IF van THEN 0 ELSE 3 * 8],
      [name |-> "ranges", size |-> IF van THEN 3 * 8 ELSE 0],
      [name |-> "tsData", size |-> 5 * 4],
      [name |-> "vec3Data", size |-> 5 * 12],
      [name |-> "scaleData", size |-> 5 * 12],
      [name |-> "quatData", size |-> 5 * (IF van THEN 16 ELSE 8)],
      [name |-> "quatBData", size |-> 5 * (IF van THEN 16 ELSE 8)],
      [name |-> "padding", size |-> 2 * 108],
      [name |-> "end", size |-> 0]>>

RECURSIVE OfsIn(_, _, _)
OfsIn(blocks, name, at) ==
    IF Head(blocks).name = name THEN at
    ELSE OfsIn(Tail(blocks), name, at + Head(blocks).size)

\* where a block lies in the file
BlockOfs(van, name) == OfsIn(BlockSizes(van), name, HeaderSize)

FullLen(van) == BlockOfs(van, "end")

TextureBlock(van) ==
    E32(0) \o E32(0) \o E32(3) \o E32(BlockOfs(van, "textureNames"))
    \o E32(1) \o E32(1) \o E32(3) \o E32(BlockOfs(van, "textureNames"))
    \o <<97, 200, 0, 0>>

\* ---- track data shared by the bones' tracks
\* per-sequence timestamps: sequence 0 has [0, 2], sequence 1 none, sequence 2 [0, 1, 2]
TsData == E32(0) \o E32(2) \o E32(0) \o E32(1) \o E32(2)
Vec3Data == EVec3(<<0, 0, 0>>) \o EVec3(<<2, 0, 0>>)
            \o EVec3(<<0, 0, 0>>) \o EVec3(<<0, 4, 0>>) \o EVec3(<<0, 0, 0>>)
ScaleData == EVec3(<<1, 1, 1>>) \o EVec3(<<2, 2, 2>>)
             \o EVec3(<<1, 1, 1>>) \o EVec3(<<1, 3, 1>>) \o EVec3(<<1, 1, 1>>)
QuatKeys == <<(<<0, 0, 0, 1>>), (<<0, 0, 1, 0>>), (<<0, 0, 1, 0>>), (<<0, 0, -1, 0>>),
              (<<0, 0, 1, 0>>)>>

\* a (count, offset) pair
EArray(n, ofs) == E32(n) \o E32(ofs)

\* the group table of the nested shape: per-sequence (count, offset) pairs into an
\* array of elements of `size` bytes at dataOfs, holding sequences of 2, 0 and 3
GroupTable(dataOfs, size) ==
    EArray(2, dataOfs) \o EArray(0, 0) \o EArray(3, dataOfs + 2 * size)

\* the range table of the flat shape, for the same three sequences
RangeTable == EArray(0, 2) \o EArray(2, 2) \o EArray(2, 5)

QuatKeysB == <<(<<0, 0, 1, 0>>), (<<0, 0, 1, 0>>), (<<0, 0, 1, 0>>), (<<0, 0, -1, 0>>),
               (<<0, 0, 1, 0>>)>>

CompressedData(qs) == Concat(AsSeq([i \in 1..Len(qs) |-> ECompressedQuat(qs[i])]))
Quat4FData(qs) == Concat(AsSeq([i \in 1..Len(qs) |-> EQuat4F(qs[i])]))

\* WotLK track data: five group tables, then the arrays they point into
TrackDataWotlk ==
    GroupTable(BlockOfs(FALSE, "tsData"), 4) \o GroupTable(BlockOfs(FALSE, "vec3Data"), 12)
    \o GroupTable(BlockOfs(FALSE, "scaleData"), 12)
    \o GroupTable(BlockOfs(FALSE, "quatData"), 8)
    \o GroupTable(BlockOfs(FALSE, "quatBData"), 8)
    \o TsData \o Vec3Data \o ScaleData
    \o CompressedData(QuatKeys) \o CompressedData(QuatKeysB)

\* vanilla track data: the range table, then the flat arrays
TrackDataVanilla ==
    RangeTable \o TsData \o Vec3Data \o ScaleData
    \o Quat4FData(QuatKeys) \o Quat4FData(QuatKeysB)

\* M2TrackDisk (20 bytes): the timestamp and key group tables by block name
ETrackWotlk(interp, gs, n, keyTable) ==
    ES16(interp) \o ES16(gs)
    \o (IF n = 0 THEN EArray(0, 0) \o EArray(0, 0)
        ELSE EArray(n, BlockOfs(FALSE, "tsTable")) \o EArray(n, BlockOfs(FALSE, keyTable)))

\* M2TrackDiskVanilla (28 bytes): ranges, flat timestamps, flat keys by block name
ETrackVanilla(interp, gs, n, keyData) ==
    ES16(interp) \o ES16(gs)
    \o (IF n = 0 THEN EArray(0, BlockOfs(TRUE, "ranges")) \o EArray(0, 0) \o EArray(0, 0)
        ELSE EArray(3, BlockOfs(TRUE, "ranges")) \o EArray(n, BlockOfs(TRUE, "tsData"))
             \o EArray(n, BlockOfs(TRUE, keyData)))

\* bone 0 is the root; bone 1 hangs under it and takes its translation from
\* global sequence 0
BoneBlockWotlk ==
    E32(0) \o E32(0) \o ES16(-1) \o E16(0) \o E32(0)
    \o ETrackWotlk(1, -1, 3, "vec3Table")
    \o ETrackWotlk(0, -1, 3, "quatTable")
    \o ETrackWotlk(0, -1, 0, "scaleTable")
    \o EVec3(<<1, 0, 0>>)
    \o E32(5) \o E32(0) \o ES16(0) \o E16(0) \o E32(0)
    \o ETrackWotlk(0, 0, 3, "vec3Table")
    \o ETrackWotlk(1, -1, 3, "quatBTable")
    \o ETrackWotlk(1, -1, 3, "scaleTable")
    \o EVec3(<<0, 1, 0>>)

BoneBlockVanilla ==
    E32(0) \o E32(0) \o ES16(-1) \o E16(0)
    \o ETrackVanilla(1, -1, 5, "vec3Data")
    \o ETrackVanilla(0, -1, 5, "quatData")
    \o ETrackVanilla(0, -1, 0, "scaleData")
    \o EVec3(<<1, 0, 0>>)
    \o E32(5) \o E32(0) \o ES16(0) \o E16(0)
    \o ETrackVanilla(0, 0, 5, "vec3Data")
    \o ETrackVanilla(1, -1, 5, "quatBData")
    \o ETrackVanilla(1, -1, 5, "scaleData")
    \o EVec3(<<0, 1, 0>>)

\* ---- skin files: a header of (count, offset) pairs and a body of four arrays
SkinHeaderSize == 48 + 4

SkinLookupBlock == E16(2) \o E16(0) \o E16(7) \o E16(1)
SkinTriangleBlock == E16(0) \o E16(1) \o E16(2) \o E16(2) \o E16(5) \o E16(3)
SubmeshRecord(vstart, vcount, istart, icount) ==
    E16(0) \o E16(0) \o E16(vstart) \o E16(vcount) \o E16(istart) \o E16(icount)
    \o Zeros(36)
SkinSubmeshBlock == SubmeshRecord(0, 2, 0, 3) \o SubmeshRecord(2, 1, 3, 3)
BatchRecord(submesh, combo) ==
    Zeros(4) \o E16(submesh) \o Zeros(10) \o E16(combo) \o Zeros(6)
SkinBatchBlock == BatchRecord(0, 1) \o BatchRecord(1, 0)

SkinLookupOfs == SkinHeaderSize
SkinTriangleOfs == SkinLookupOfs + Len(SkinLookupBlock)
SkinSubmeshOfs == SkinTriangleOfs + Len(SkinTriangleBlock)
SkinBatchOfs == SkinSubmeshOfs + Len(SkinSubmeshBlock)
SkinFullLen == SkinBatchOfs + Len(SkinBatchBlock)

SkinBaseline ==
    [magic |-> FALSE, len |-> SkinFullLen,
     n_indices |-> 4, ofs_indices |-> SkinLookupOfs,
     n_tris |-> 6, ofs_tris |-> SkinTriangleOfs,
     n_submeshes |-> 2, ofs_submeshes |-> SkinSubmeshOfs,
     n_batches |-> 2, ofs_batches |-> SkinBatchOfs]

SkinHeader(d) ==
    EArray(d.n_indices, d.ofs_indices) \o EArray(d.n_tris, d.ofs_tris)
    \o Zeros(8) \o EArray(d.n_submeshes, d.ofs_submeshes)
    \o EArray(d.n_batches, d.ofs_batches) \o Zeros(8)

SkinFile(d) ==
    CutAt((IF d.magic THEN SkinMagic ELSE <<>>) \o SkinHeader(d)
          \o (IF d.magic THEN <<>> ELSE Zeros(4))
          \o SkinLookupBlock \o SkinTriangleBlock \o SkinSubmeshBlock \o SkinBatchBlock,
          d.len)

\* ---- M2 files
BodyVanilla ==
    GlobalSeqBlock \o AnimBlockVanilla \o BoneLookupBlock \o TextureLookupBlock
    \o TextureBlock(TRUE) \o VertexBlock \o BoneBlockVanilla \o TrackDataVanilla
    \o Zeros(2 * 108)

BodyWotlk ==
    GlobalSeqBlock \o AnimBlockWotlk \o BoneLookupBlock \o TextureLookupBlock
    \o TextureBlock(FALSE) \o VertexBlock \o BoneBlockWotlk \o TrackDataWotlk
    \o Zeros(2 * 108)

\* the header of the well-formed file: every array declared where the body holds it
StdHeader(van) ==
    [nGlobalSeq |-> 2, ofsGlobalSeq |-> BlockOfs(van, "globalSeq"),
     nAnims |-> 3, ofsAnims |-> BlockOfs(van, "anims"),
     nBones |-> 2, ofsBones |-> BlockOfs(van, "bones"),
     nVerts |-> 3, ofsVerts |-> BlockOfs(van, "verts"),
     nTextures |-> 2, ofsTextures |-> BlockOfs(van, "textures"),
     nTextureLookup |-> 2, ofsTextureLookup |-> BlockOfs(van, "textureLookup"),
     nBoneLookup |-> 4, ofsBoneLookup |-> BlockOfs(van, "boneLookup")]

\* a file descriptor: the header fields in h replace those of StdHeader, cut >= 0
\* cuts the file at that length, tail is appended after the body
Baseline(version) ==
    [magic |-> M2Magic, version |-> version, cut |-> -1, views |-> 0,
     tail |-> <<>>, h |-> <<>>]

\* the header: magic, version, the fourteen array fields at the offsets of the
\* version and, in a vanilla file, ofsViews at 100
Header(d) ==
    LET van == d.version <= 256
    IN  AsSeq([i \in 1..HeaderSize |->
            LET o == i - 1
                hit == {f \in HeaderFields : hdr(van, f) <= o /\ o < hdr(van, f) + 4}
            IN  IF o < 4 THEN d.magic[i]
                ELSE IF o < 8 THEN E32(d.version)[o - 3]
                ELSE IF hit # {}
                     THEN LET f == CHOOSE f \in hit : TRUE
                              v == IF f \in DOMAIN d.h THEN d.h[f] ELSE StdHeader(van)[f]
                          IN  E32(v)[o - hdr(van, f) + 1]
                ELSE IF van /\ o >= 100 /\ o < 104 THEN E32(d.views)[o - 99]
                ELSE 0])

\* buf with the bytes at offsets off .. off + Len(bytes) - 1 replaced
SetBytes(buf, off, bytes) ==
    AsSeq([i \in 1..Len(buf) |->
              IF i > off /\ i <= off + Len(bytes) THEN bytes[i - off] ELSE buf[i]])

\* where the parent field (int16 at +8) of bone i lies
ParentOfs(van, i) == BlockOfs(van, "bones") + i * (IF van THEN 108 ELSE 88) + 8

\* the parents a descriptor gives the two bones: d.h.parent0 and d.h.parent1
\* replace the parents -1 and 0 of the well-formed file
WithParents(d, buf) ==
    IF "parent0" \in DOMAIN d.h
    THEN SetBytes(SetBytes(buf, ParentOfs(d.version <= 256, 0), ES16(d.h.parent0)),
                  ParentOfs(d.version <= 256, 1), ES16(d.h.parent1))
    ELSE buf

M2File(d) ==
    CutAt(WithParents(d, Header(d)
                         \o (IF d.version <= 256 THEN BodyVanilla ELSE BodyWotlk)
                         \o d.tail),
          d.cut)

(***************************************************************************)
(* M2ViewerWindow: run() up to the main loop, one iteration's animation     *)
(* step, and _handle_key.                                                  *)
(***************************************************************************)
None == <<>>

\* the parser object as the state keeps it: its data field is the variable data
Stored(p) == [f \in DOMAIN p \ {"data"} |-> p[f]]
NoSkinFile == [exists |-> FALSE, bytes |-> <<>>]

\* a length test alone, without the comparison of the magic
LongEnough(buf) == Len(buf) >= 8

\* the magic / length test of run()
ValidM2(buf) == ~(Len(buf) < 8 \/ SubSeq(buf, 1, 4) # M2Magic)

\* the skin bytes run() hands to parse_skin_data: the .skin file when it exists,
\* else the embedded views of a vanilla file, else nothing (None)
SkinSource(p, buf, sk) ==
    IF sk.exists THEN sk.bytes
    ELSE IF p.is_vanilla /\ p.version <= 256 /\ Len(buf) > 108
            /\ U32(buf, 100) > 0 /\ U32(buf, 100) < Len(buf)
         THEN SubSeq(buf, U32(buf, 100) + 1, Len(buf))
         ELSE None

LoadSkin(p, buf, sk) ==
    IF SkinSource(p, buf, sk) = None /\ ~sk.exists THEN p
    ELSE parse_skin_data(p, SkinSource(p, buf, sk))

InitAnimation(p) ==
    IF Len(p.animations) > 0 THEN set_sequence(AnimationSystem, p, 0) ELSE AnimationSystem

\* run(): read the file, check the magic, construct the parser, load the skin,
\* start the animation system
RunOn(files, skins) ==
    /\ pc = "start"
    /\ \E d \in files, sk \in skins :
         \E buf \in {M2File(d)} :
          /\ data' = buf
          /\ skin' = sk
          /\ lastOp' = [op |-> "run"]
          /\ skinned' = None
          /\ IF ~ValidM2(buf)
             THEN pc' = "rejected" /\ parser' = None /\ anim' = None
             ELSE \E p0 \in {M2Parser(buf)} :
                    IF p0.raised
                    THEN pc' = "crashed" /\ parser' = None /\ anim' = None
                    ELSE \E p1 \in {LoadSkin(p0, buf, sk)} :
                           IF p1.raised
                           THEN pc' = "crashed" /\ parser' = Stored(p1) /\ anim' = None
                           ELSE /\ pc' = "running"
                                /\ parser' = Stored(p1)
                                /\ anim' = InitAnimation(p1)

\* one pass of the main loop after the events: update(dt), then skinning when
\* there are bone matrices and a bone-lookup table; dt_ms is what tick(60) returned
Frame(dt_ms) ==
    /\ pc = "running"
    /\ \E r \in {update(anim, parser, dt_ms)} :
           /\ anim' = r.self
           /\ lastOp' = [op |-> "update", dt_ms |-> dt_ms]
           /\ IF r.raised
              THEN pc' = "crashed" /\ skinned' = skinned
              ELSE /\ pc' = pc
                   /\ skinned' =
                        IF Len(r.self.bone_matrices) > 0 /\ Len(parser.bone_lookup) > 0
                        THEN skin_vertices(r.self.bone_matrices, parser.positions,
                                           parser.bone_weights, parser.bone_indices,
                                           parser.bone_lookup)
                        ELSE skinned
    /\ UNCHANGED <<data, skin, parser>>

Keys == {"ESCAPE", "SPACE", "RIGHT", "LEFT", "PLUS", "MINUS", "r"}

MaxSpeed == 5 * QuartersPerMs

\* the index RIGHT / LEFT hand to set_sequence
KeySequence(self, p, key) ==
    (self.current_seq + (IF key = "RIGHT" THEN 1 ELSE -1)) % Len(p.animations)

\* RIGHT and LEFT call set_sequence when the model has animations
KeySetsSequence(p, key) == key \in {"RIGHT", "LEFT"} /\ Len(p.animations) > 0

handle_key(self, p, key) ==
    IF key = "SPACE" THEN [self EXCEPT !.playing = ~self.playing]
    ELSE IF KeySetsSequence(p, key) THEN set_sequence(self, p, KeySequence(self, p, key))
    ELSE IF key = "PLUS" THEN [self EXCEPT !.speed = Min(self.speed + 1, MaxSpeed)]
    ELSE IF key = "MINUS" THEN [self EXCEPT !.speed = Max(self.speed - 1, 0)]
    ELSE IF key = "r"
         THEN [self EXCEPT !.time_ms = 0, !.playing = FALSE, !.bone_matrices = <<>>]
    ELSE self

\* the speeds the model explores: MaxSpeedSteps presses away from 1.0
SpeedExplored(key) ==
    /\ key = "PLUS" => anim.speed < QuartersPerMs + MaxSpeedSteps
    /\ key = "MINUS" => anim.speed > QuartersPerMs - MaxSpeedSteps

HandleKey(key) ==
    /\ pc = "running"
    /\ SpeedExplored(key)
    /\ anim' = handle_key(anim, parser, key)
    /\ pc' = IF key = "ESCAPE" THEN "quit" ELSE pc
    /\ lastOp' = IF KeySetsSequence(parser, key)
                 THEN [op |-> "set_sequence", idx |-> KeySequence(anim, parser, key)]
                 ELSE [op |-> "key"]
    /\ UNCHANGED <<data, skin, parser, skinned>>

\* AnimationSystem.set_sequence called with an arbitrary index
SetSequence(idx) ==
    /\ pc = "running"
    /\ anim' = set_sequence(anim, parser, idx)
    /\ lastOp' = [op |-> "set_sequence", idx |-> idx]
    /\ UNCHANGED <<pc, data, skin, parser, skinned>>

Init ==
    /\ pc = "start"
    /\ data = <<>>
    /\ skin = NoSkinFile
    /\ parser = None
    /\ anim = None
    /\ skinned = None
    /\ lastOp = [op |-> "init"]

(***************************************************************************)
(* The files the specifications read.                                      *)
(***************************************************************************)
Versions == {256, 264}

\* the header arrays: field names, element size and block of the body
ArrayFields(van) ==
    {[n |-> "nGlobalSeq", o |-> "ofsGlobalSeq", size |-> 4, block |-> "globalSeq"],
     [n |-> "nAnims", o |-> "ofsAnims", size |-> IF van THEN 68 ELSE 64, block |-> "anims"],
     [n |-> "nBones", o |-> "ofsBones", size |-> IF van THEN 108 ELSE 88, block |-> "bones"],
     [n |-> "nVerts", o |-> "ofsVerts", size |-> 48, block |-> "verts"],
     [n |-> "nTextures", o |-> "ofsTextures", size |-> 16, block |-> "textures"],
     [n |-> "nTextureLookup", o |-> "ofsTextureLookup", size |-> 2,
      block |-> "textureLookup"],
     [n |-> "nBoneLookup", o |-> "ofsBoneLookup", size |-> 2, block |-> "boneLookup"]}

FarOffset == 1000000

\* the (count, offset) pairs tried for one array of a file of length len: no
\* elements, one element, a count over every ceiling, an extent that ends exactly
\* at the end of the file, one byte past it, an offset at the end and far beyond
Declared(size, at, len) ==
    {<<0, at>>, <<1, at>>, <<500001, at>>,
     <<2, len - 2 * size>>, <<2, len - 2 * size + 1>>,
     <<2, len>>, <<2, FarOffset>>}

Override(d, f, v) ==
    [d EXCEPT !.h = [g \in DOMAIN d.h \cup {f} |-> IF g = f THEN v ELSE d.h[g]]]

WithArray(d, f, na) == Override(Override(d, f.n, na[1]), f.o, na[2])

\* every well-formed file with one array declared differently
VariedArrays(v) ==
    UNION {{WithArray(Baseline(v), f, na) :
               na \in Declared(f.size, BlockOfs(v <= 256, f.block), FullLen(v <= 256))} :
           f \in ArrayFields(v <= 256)}

OneArrayVaried == UNION {VariedArrays(v) : v \in Versions}

\* files cut inside or right after the header
TruncatedLengths == {8, 24, 100, 128, 136, 152, HeaderSize}
Truncated == {[Baseline(v) EXCEPT !.cut = n] : n \in TruncatedLengths, v \in Versions}

\* files that are not M2 files: a wrong magic, fewer than 8 bytes
NotM2 ==
    {[Baseline(v) EXCEPT !.magic = m] : m \in {<<77, 68, 50, 49>>, SkinMagic}, v \in Versions}
    \cup {[Baseline(264) EXCEPT !.cut = n] : n \in {0, 4, 7}}

\* a vanilla file with its skin embedded at ofsViews
Embedded ==
    [Baseline(256) EXCEPT !.views = FullLen(TRUE), !.tail = SkinFile(SkinBaseline)]

DecodeFiles ==
    {Baseline(v) : v \in Versions} \cup OneArrayVaried \cup Truncated \cup NotM2
    \cup {Embedded}

\* the (count, offset) pairs tried for one array of a skin file
SkinDeclared(n, at, size) ==
    {<<0, at>>, <<1, at>>, <<500001, at>>, <<n, SkinFullLen - n * size + 1>>,
     <<n, FarOffset>>}

\* a skin file whose vertex-lookup extent ends one byte past the file
SkinLookupPastEnd == [SkinBaseline EXCEPT !.ofs_indices = SkinFullLen - 4 * 2 + 1]

\* skin file d with one more array declared differently, a SKIN prefix, or cut
SkinVaried(d) ==
    {[d EXCEPT !.n_indices = na[1], !.ofs_indices = na[2]] :
        na \in SkinDeclared(4, SkinLookupOfs, 2)}
    \cup {[d EXCEPT !.n_tris = na[1], !.ofs_tris = na[2]] :
        na \in SkinDeclared(6, SkinTriangleOfs, 2)}
    \cup {[d EXCEPT !.n_submeshes = na[1], !.ofs_submeshes = na[2]] :
        na \in SkinDeclared(2, SkinSubmeshOfs, 48) \cup {<<10000, SkinSubmeshOfs>>}}
    \cup {[d EXCEPT !.n_batches = na[1], !.ofs_batches = na[2]] :
        na \in SkinDeclared(2, SkinBatchOfs, 24) \cup {<<10000, SkinBatchOfs>>}}
    \cup {[d EXCEPT !.magic = TRUE], [d EXCEPT !.len = 47], [d EXCEPT !.len = 48]}

DecodeSkins ==
    {NoSkinFile}
    \cup {[exists |-> TRUE, bytes |-> SkinFile(d)] :
             d \in {SkinBaseline, SkinLookupPastEnd} \cup SkinVaried(SkinBaseline)
                   \cup SkinVaried(SkinLookupPastEnd)}

\* the models the viewer specification animates
ViewerFiles ==
    {Baseline(264),
     Override(Baseline(264), "nBones", 0),
     Override(Baseline(256), "nBones", 0),
     Override(Baseline(264), "nAnims", 0),
     [Baseline(264) EXCEPT !.cut = 8],
     [Baseline(264) EXCEPT !.magic = SkinMagic]}

ViewerSkins == {NoSkinFile}

(***************************************************************************)
(* Specifications.                                                         *)
(***************************************************************************)
Run == RunOn(ViewerFiles, ViewerSkins)

TickMs == {0} \cup 16..MaxTickMs

Next ==
    \/ Run
    \/ \E dt_ms \in TickMs : Frame(dt_ms)
    \/ \E key \in Keys : HandleKey(key)
    \/ \E idx \in (-MaxSeqArg)..MaxSeqArg : SetSequence(idx)

\* the viewer
Spec == Init /\ [][Next]_vars

RunDecode == RunOn(DecodeFiles, {NoSkinFile})

\* decoding of the M2 file alone, over the larger set of files
SpecDecode == Init /\ [][RunDecode]_vars

\* the models whose skin is decoded: with and without vertices, both versions
SkinHosts ==
    {Baseline(264), Baseline(256), Embedded,
     Override(Baseline(264), "nVerts", 0),
     Override(Baseline(256), "nVerts", 1)}

RunSkin == RunOn(SkinHosts, DecodeSkins)

\* decoding of the skin file, over the larger set of skin files
SpecSkin == Init /\ [][RunSkin]_vars

(***************************************************************************)
(* Decoding of the M2 file: claims C1, C2, C3 (under SpecDecode).           *)
(***************************************************************************)
\* run() handed the buffer to M2Parser: it is at least 8 bytes and starts with MD20
HandedToParser == pc \in {"running", "crashed"}

\* C1: for every buffer of at least 8 bytes that starts with the magic MD20,
\* constructing M2Parser completes: no exception is raised and no read falls
\* outside the buffer.  The header reads of _read_m2array are not checked
\* against the length, so a buffer that ends inside the header refutes this.
C1_ConstructionCompletes ==
    (pc # "start" /\ Len(data) >= 8 /\ SubSeq(data, 1, 4) = M2Magic) => pc # "crashed"

\* the six header arrays of C2: header fields, element size, sanity ceiling and
\* the attribute of the parser that holds the decoded collection
CheckedArrays(van) ==
    {[n |-> "nGlobalSeq", o |-> "ofsGlobalSeq", size |-> 4, ceiling |-> 10000,
      attr |-> "global_sequences"],
     [n |-> "nVerts", o |-> "ofsVerts", size |-> 48, ceiling |-> 500000,
      attr |-> "positions"],
     [n |-> "nTextures", o |-> "ofsTextures", size |-> 16, ceiling |-> 1000,
      attr |-> "textures"],
     [n |-> "nTextureLookup", o |-> "ofsTextureLookup", size |-> 2, ceiling |-> 10000,
      attr |-> "texture_lookup"],
     [n |-> "nBoneLookup", o |-> "ofsBoneLookup", size |-> 2, ceiling |-> 10000,
      attr |-> "bone_lookup"],
     [n |-> "nAnims", o |-> "ofsAnims", size |-> IF van THEN 68 ELSE 64, ceiling |-> 5000,
      attr |-> "animations"]}

\* the buffer declares array f with a count over the ceiling or an extent past
\* the end of the buffer
DeclaredRejected(buf, van, f) ==
    /\ read_u32_ok(buf, hdr(van, f.n)) /\ read_u32_ok(buf, hdr(van, f.o))
    /\ \/ U32(buf, hdr(van, f.n)) > f.ceiling
       \/ U32(buf, hdr(van, f.o)) + U32(buf, hdr(van, f.n)) * f.size > Len(buf)

\* the collection `attr` as its decoder alone leaves it on a fresh parser
DecodedAlone(buf, attr) ==
    (CASE attr = "global_sequences" -> parse_global_sequences(NewParser(buf))
       [] attr = "positions" -> parse_vertices(NewParser(buf))
       [] attr = "textures" -> parse_textures(NewParser(buf))
       [] attr = "texture_lookup" -> parse_texture_lookup(NewParser(buf))
       [] attr = "bone_lookup" -> parse_bone_lookup(NewParser(buf))
       [] attr = "animations" -> parse_animations(NewParser(buf)))[attr]

\* array f is left empty, nothing is raised, and every other array is what its
\* own decoder makes of the buffer
RejectedAlone(van, f) ==
    /\ pc = "running"
    /\ parser[f.attr] = <<>>
    /\ \A g \in CheckedArrays(van) \ {f} : parser[g.attr] = DecodedAlone(data, g.attr)

\* C2: for each of the six header arrays, a declared count over the ceiling or
\* an extent past the end of the buffer leaves that collection empty, raises no
\* error and leaves every other array decoded as it would be otherwise.  A
\* buffer that ends inside the header (C1) declares such arrays and raises.
C2_RejectedArrayIsEmpty ==
    HandedToParser =>
        \A f \in CheckedArrays(U32(data, 4) <= 256) :
            DeclaredRejected(data, U32(data, 4) <= 256, f)
                => RejectedAlone(U32(data, 4) <= 256, f)

\* C3: a buffer whose first four bytes are not MD20 is turned away by run()
\* before any M2Parser is constructed: no parser state and no animation state
\* exist for it.
C3_NotM2Rejected ==
    (pc # "start" /\ (Len(data) < 4 \/ SubSeq(data, 1, 4) # M2Magic))
        => (pc = "rejected" /\ parser = None /\ anim = None)

\* a full-length file with a wrong magic has been read and turned away
C3_WrongMagicSeen ==
    /\ pc = "rejected"
    /\ Len(data) >= HeaderSize
    /\ SubSeq(data, 1, 4) # M2Magic
    /\ parser = None

(***************************************************************************)
(* Decoding of the skin: claims C4, C5, C6 (under SpecSkin).                *)
(***************************************************************************)
\* the bytes run() handed to parse_skin_data
SkinData == SkinSource(NewParser(data), data, skin)

\* run() called parse_skin_data
SkinHanded == HandedToParser /\ (skin.exists \/ SkinData # None)

SkinOff == IF Len(SkinData) >= 4 /\ SubSeq(SkinData, 1, 4) = SkinMagic THEN 4 ELSE 0

\* the u32 at offset k of the skin header
SkinField(k) == U32(SkinData, SkinOff + k)

\* the vertex count the resolution step compares against
VertexLimit == IF Len(parser.positions) > 0 THEN Len(parser.positions) ELSE NoVertsLimit

\* resolved[i] is vertexLookup[triangles[i]] when that exists and is below
\* limit, else 0
ResolvedAgainst(limit) ==
    /\ Len(parser.resolved_indices) = Len(parser.triangles)
    /\ \A i \in 1..Len(parser.triangles) :
          parser.resolved_indices[i] =
              IF parser.triangles[i] < Len(parser.vertex_lookup)
                 /\ parser.vertex_lookup[parser.triangles[i] + 1] < limit
              THEN parser.vertex_lookup[parser.triangles[i] + 1]
              ELSE 0

\* C4 (as the code has it): after parse_skin_data, when both the triangle array
\* and the vertex lookup are non-empty, resolved has one entry per triangle
\* entry, resolved[i] = vertexLookup[triangles[i]] when triangles[i] is in range
\* and the value is below the vertex count (below 65536 when the model has no
\* vertices), else 0; when either array is empty resolved stays empty; nothing
\* is raised.
C4_ResolvedIndices ==
    SkinHanded =>
        /\ pc = "running"
        /\ IF Len(parser.triangles) > 0 /\ Len(parser.vertex_lookup) > 0
           THEN ResolvedAgainst(VertexLimit)
           ELSE parser.resolved_indices = <<>>

\* a triangle entry out of range of the lookup and a looked-up value that is no
\* vertex of the model have both been resolved to 0 next to a value that is kept
C4_SubstitutedSeen ==
    /\ pc = "running"
    /\ Len(parser.positions) > 0
    /\ \E i, j, k \in 1..Len(parser.resolved_indices) :
          /\ parser.triangles[i] >= Len(parser.vertex_lookup)
          /\ parser.triangles[j] < Len(parser.vertex_lookup)
          /\ parser.vertex_lookup[parser.triangles[j] + 1] >= Len(parser.positions)
          /\ parser.resolved_indices[k] > 0

\* C4 as stated: one entry per triangle entry and the vertex count itself as
\* the limit, for every vertex count including zero
C4_AsStated ==
    SkinHanded => (pc = "running" /\ ResolvedAgainst(Len(parser.positions)))

\* the submesh table / batch table of the skin header is valid on its own
SubmeshTableValid ==
    /\ SkinField(24) > 0 /\ SkinField(24) < 10000
    /\ SkinField(28) + SkinField(24) * (IF U32(data, 4) <= 256 THEN 32 ELSE 48)
          <= Len(SkinData)

BatchTableValid ==
    /\ SkinField(32) > 0 /\ SkinField(32) < 10000
    /\ SkinField(36) + SkinField(32) * 24 <= Len(SkinData)

\* C5: a submesh table or batch table that is valid on its own is decoded,
\* whatever the vertexLookup and triangle counts and extents are.  The two
\* early returns on nIndices and nTriangles leave both tables undecoded.
C5_TablesIndependent ==
    (SkinHanded /\ Len(SkinData) >= 48) =>
        /\ pc = "running"
        /\ SubmeshTableValid => Len(parser.submeshes) = SkinField(24)
        /\ BatchTableValid => Len(parser.batches) = SkinField(32)

\* C6: when ofsIndices + nIndices * 2 of the skin header exceeds the length of
\* the skin buffer, parse_skin_data leaves vertexLookup and resolvedIndices
\* empty and raises nothing, whatever the other header fields are.
C6_LookupPastEnd ==
    (SkinHanded /\ Len(SkinData) >= SkinOff + 8
       /\ SkinField(4) + SkinField(0) * 2 > Len(SkinData))
        => (pc = "running" /\ parser.vertex_lookup = <<>>
            /\ parser.resolved_indices = <<>>)

\* a skin whose lookup alone runs past the end: its triangles, submeshes and
\* batches have been decoded
C6_OnlyLookupPastEnd ==
    /\ pc = "running" /\ skin.exists /\ Len(SkinData) >= 48
    /\ SkinField(0) > 0 /\ SkinField(0) <= 500000
    /\ SkinField(4) + SkinField(0) * 2 > Len(SkinData)
    /\ Len(parser.triangles) > 0
    /\ Len(parser.submeshes) > 0
    /\ parser.vertex_lookup = <<>>

(***************************************************************************)
(* skin_vertices on its own: claims C7, C8 (under SpecSkinVertices).  The   *)
(* initial states hold the bone matrices and the per-vertex arrays the      *)
(* function reads; the one action applies it.                               *)
(***************************************************************************)
\* a translation and scaling, and a half turn about z
MatrixSets ==
    {<<>>,
     <<MatMul(translate(R(1), R(2), R(3)), scale_mat4(R(2), R(2), R(2)))>>,
     <<MatMul(translate(R(1), R(2), R(3)), scale_mat4(R(2), R(2), R(2))),
       quat_to_mat4(RVec(<<0, 0, 1, 0>>))>>}

PositionSet == {<<1, 0, 0>>, <<1, 2, 3>>}
WeightSet == {<<0, 0, 0, 0>>, <<255, 0, 0, 0>>, <<128, 127, 0, 0>>, <<0, 255, 0, 0>>}
IndexSet == {<<0, 0, 0, 0>>, <<1, 0, 0, 0>>, <<2, 1, 0, 0>>, <<3, 3, 0, 0>>}
LookupSet == {<<>>, <<0>>, <<0, 1>>, <<1, 0, 5>>}

InitSkinVertices ==
    /\ pc = "running"
    /\ data = <<>>
    /\ skin = NoSkinFile
    /\ \E m \in MatrixSets : anim = [AnimationSystem EXCEPT !.bone_matrices = m]
    /\ \E pos \in PositionSet, w \in WeightSet, bi \in IndexSet, l \in LookupSet :
          parser = [positions |-> <<pos>>, bone_weights |-> <<w>>,
                    bone_indices |-> <<bi>>, bone_lookup |-> l]
    /\ skinned = None
    /\ lastOp = [op |-> "init"]

SkinVertices ==
    /\ pc = "running"
    /\ lastOp.op = "init"
    /\ skinned' = skin_vertices(anim.bone_matrices, parser.positions, parser.bone_weights,
                                parser.bone_indices, parser.bone_lookup)
    /\ lastOp' = [op |-> "skin_vertices"]
    /\ UNCHANGED <<pc, data, skin, parser, anim>>

SpecSkinVertices == InitSkinVertices /\ [][SkinVertices]_vars

\* skin_vertices has run past its first test: there are bone matrices and a
\* bone-lookup table
SkinningDone ==
    /\ lastOp.op = "skin_vertices"
    /\ Len(anim.bone_matrices) > 0
    /\ Len(parser.bone_lookup) > 0

\* pair j of vertex v is a valid contribution: its weight is over the epsilon
\* (raw / 255 > 0.001) and its bone index maps through the lookup to a bone
ValidContribution(v, j) ==
    /\ parser.bone_weights[v][j] * 1000 > 255
    /\ parser.bone_indices[v][j] < Len(parser.bone_lookup)
    /\ parser.bone_lookup[parser.bone_indices[v][j] + 1] < Len(anim.bone_matrices)

\* C7: a vertex none of whose four pairs is a valid contribution is returned
\* at its rest position.  The code divides the zero sum by 1 and returns the
\* origin.
C7_RestPositionKept ==
    SkinningDone =>
        \A v \in 1..Len(parser.positions) :
            (\A j \in 1..4 : ~ValidContribution(v, j))
                => skinned[v] = RVec(parser.positions[v])

\* the bone matrix the first pair of vertex v maps to
FirstBoneMatrix(v) ==
    anim.bone_matrices[parser.bone_lookup[parser.bone_indices[v][1] + 1] + 1]

\* row i of M applied to [x, y, z, 1]
AffineRow(M, pos, i) ==
    RAdd(RAdd(RMul(M[i][1], R(pos[1])), RMul(M[i][2], R(pos[2]))),
         RAdd(RMul(M[i][3], R(pos[3])), M[i][4]))

\* C8: a vertex with raw weights [255, 0, 0, 0] whose first bone index maps
\* through the lookup to a valid bone with affine matrix M comes out as the
\* xyz of M * [x, y, z, 1].
C8_SingleBone ==
    SkinningDone =>
        \A v \in 1..Len(parser.positions) :
            (/\ parser.bone_weights[v] = <<255, 0, 0, 0>>
             /\ ValidContribution(v, 1)
             /\ FirstBoneMatrix(v)[4] = <<R(0), R(0), R(0), R(1)>>)
                => skinned[v] = <<AffineRow(FirstBoneMatrix(v), parser.positions[v], 1),
                                  AffineRow(FirstBoneMatrix(v), parser.positions[v], 2),
                                  AffineRow(FirstBoneMatrix(v), parser.positions[v], 3)>>

\* such a vertex has been moved by a bone that is not the first one
C8_MovedBySecondBone ==
    /\ SkinningDone
    /\ parser.bone_weights[1] = <<255, 0, 0, 0>>
    /\ ValidContribution(1, 1)
    /\ parser.bone_lookup[parser.bone_indices[1][1] + 1] = 1
    /\ skinned[1] # RVec(parser.positions[1])

(***************************************************************************)
(* The animation clock: claims C9, C10 (under Spec).                        *)
(***************************************************************************)
\* Python's a % b for integers: the result has the sign of b
PyMod(a, b) == IF b > 0 THEN a % b ELSE -((-a) % (-b))

ActiveDuration == parser.animations[anim.current_seq + 1].duration

\* this step is update(dt) on a playing animation system with an active sequence
UpdateWhilePlaying ==
    /\ pc = "running"
    /\ lastOp'.op = "update"
    /\ anim.playing
    /\ Len(parser.animations) > 0

\* the step moved the clock by dt * 1000 * speed, modulo the duration
ClockAdvanced ==
    anim'.time_ms = PyMod(anim.time_ms + lastOp'.dt_ms * anim.speed,
                          QuartersPerMs * ActiveDuration)

\* C9 (as the code has it): when playing is true, the bone table is not empty
\* and the active sequence's duration d is positive, update(dt) sets elapsedMs
\* to (elapsedMs + dt * 1000 * speed) mod d; with an empty bone table or a
\* duration that is not positive it leaves elapsedMs as it was.
C9_ClockStep ==
    [][UpdateWhilePlaying =>
         IF Len(parser.bones) > 0 /\ ActiveDuration > 0
         THEN ClockAdvanced
         ELSE anim'.time_ms = anim.time_ms]_vars

\* an update at a speed other than 1.0 has left the clock inside the sequence
C9_AdvancedSeen ==
    /\ pc = "running"
    /\ lastOp.op = "update" /\ lastOp.dt_ms > 0
    /\ anim.playing
    /\ anim.speed # QuartersPerMs
    /\ anim.time_ms > 0

\* C9 as stated: the clock advances whenever playing is true and the duration
\* is nonzero, whatever the bone table
C9_AsStated == [][(UpdateWhilePlaying /\ ActiveDuration # 0) => ClockAdvanced]_vars

\* C10: whatever set_sequence calls, updates and next / previous key presses
\* came before, current_seq is in [0, n - 1] when the model has n >= 1
\* sequences, and right after a set_sequence the elapsed time is 0.
C10_SequenceInRange ==
    pc \in {"running", "quit"} =>
        /\ Len(parser.animations) >= 1
              => anim.current_seq \in 0..(Len(parser.animations) - 1)
        /\ lastOp.op = "set_sequence" => anim.time_ms = 0

\* set_sequence was handed an index past the last sequence and took the last
C10_ClampedSeen ==
    /\ pc = "running"
    /\ lastOp.op = "set_sequence"
    /\ lastOp.idx >= Len(parser.animations)
    /\ Len(parser.animations) >= 2
    /\ anim.current_seq = Len(parser.animations) - 1

(***************************************************************************)
(* Tracks on a global sequence: claim C11 (under Spec).                     *)
(***************************************************************************)
\* the track declares a global sequence the model has
OnGlobalSequence(p, track) ==
    track.global_sequence >= 0 /\ track.global_sequence < Len(p.global_sequences)

\* the three tracks of every bone
BoneTracks(p) ==
    UNION {{p.bones[i].translation, p.bones[i].rotation, p.bones[i].scale} :
              i \in 1..Len(p.bones)}

GlobalTracks(p) == {track \in BoneTracks(p) : OnGlobalSequence(p, track)}

\* the effective time _get_time_and_seq gives a track under animation state a
EffectiveTime(a, track) ==
    get_time_and_seq(parser, track, a.current_seq, a.time_ms).time

\* the effective time of a clock of its own that went on by dt * 1000 * speed
GlobalClockStep(a, track, dt_ms) ==
    LET gs_dur == parser.global_sequences[track.global_sequence + 1]
    IN  IF gs_dur > 0
        THEN (EffectiveTime(a, track) + dt_ms * a.speed) % (QuartersPerMs * gs_dur)
        ELSE 0

\* C11: the effective time of a track on a global sequence runs on a clock
\* that is not the clip's: a set_sequence leaves it where it is, and an update
\* moves it on by the elapsed time modulo the global sequence's duration even
\* when the clip's time wraps at the clip's duration.  _get_time_and_seq takes
\* it from the clip's time_ms, which set_sequence resets and update wraps.
C11_GlobalClockIndependent ==
    [][pc = "running" =>
         \A track \in GlobalTracks(parser) :
            /\ lastOp'.op = "set_sequence"
                  => EffectiveTime(anim', track) = EffectiveTime(anim, track)
            /\ (UpdateWhilePlaying /\ Len(parser.bones) > 0 /\ ActiveDuration > 0)
                  => EffectiveTime(anim', track)
                        = GlobalClockStep(anim, track, lastOp'.dt_ms)]_vars

(***************************************************************************)
(* _get_time_and_seq, _interp_vec3 and _interp_quat on their own: a model   *)
(* of one bone whose translation and rotation tracks share their            *)
(* timestamps, evaluated under two animation states.  Claims C12 and C16    *)
(* (under SpecTrack).                                                      *)
(***************************************************************************)
\* the timestamps (ms) of sequence slot 0: in order, repeated, single, out of
\* order, and longer than the keys that go with them
SlotTimestamps == {<<0, 2>>, <<1, 1>>, <<1>>, <<2, 1>>, <<0, 1, 3>>}

\* two keys for every slot (one when there is one timestamp)
SlotVec3Keys(ts) ==
    [dim |-> 2, v |-> SubSeq(<<(<<1, 0, 0>>), (<<0, 4, 0>>)>>, 1, Min(2, Len(ts)))]
SlotQuatKeys(ts) ==
    [dim |-> 2, v |-> SubSeq(<<(<<0, 0, 0, 1>>), (<<0, 0, 1, 0>>)>>, 1, Min(2, Len(ts)))]

\* sequence slot 1 of every track
OtherTimestamps == <<0, 4>>
OtherVec3Keys == [dim |-> 2, v |-> <<(<<0, 0, 2>>), (<<0, 0, 6>>)>>]
OtherQuatKeys == [dim |-> 2, v |-> <<(<<1, 0, 0, 0>>), (<<0, 1, 0, 0>>)>>]

TrackOf(interp, gs, ts, keys0, keys1) ==
    [interp |-> interp, global_sequence |-> gs,
     timestamps |-> <<ts, OtherTimestamps>>, keys |-> <<keys0, keys1>>]

\* the times (quarter ms) and sequence indices the tracks are evaluated at
TrackTimes == {0, 3, 4, 8, 11}
TrackSeqs == {0, 1}

InitTrack ==
    /\ pc = "running"
    /\ data = <<>>
    /\ skin = NoSkinFile
    /\ skinned = None
    /\ \E interp \in {0, 1, 2}, gs \in {-1, 0, 1}, ts \in SlotTimestamps :
          parser = [global_sequences |-> <<2, 0>>,
                    translation |-> TrackOf(interp, gs, ts, SlotVec3Keys(ts), OtherVec3Keys),
                    rotation |-> TrackOf(interp, gs, ts, SlotQuatKeys(ts), OtherQuatKeys)]
    /\ \E a \in TrackSeqs, ta \in TrackTimes :
          anim = [AnimationSystem EXCEPT !.current_seq = a, !.time_ms = ta]
    /\ \E b \in TrackSeqs, tb \in TrackTimes :
          lastOp = [op |-> "init", seq |-> b, time_ms |-> tb]

\* what _eval_bone asks of the two tracks at (seq_idx, time_ms)
TrackValues(p, seq_idx, time_ms) ==
    [at |-> get_time_and_seq(p, p.translation, seq_idx, time_ms),
     trans |-> interp_vec3(p, p.translation, seq_idx, time_ms, RVec(<<0, 0, 0>>)),
     rot |-> interp_quat(p, p.rotation, seq_idx, time_ms)]

EvalTrack ==
    /\ lastOp.op = "init"
    /\ skinned' = [first |-> TrackValues(parser, anim.current_seq, anim.time_ms),
                   second |-> TrackValues(parser, lastOp.seq, lastOp.time_ms)]
    /\ lastOp' = [lastOp EXCEPT !.op = "interp"]
    /\ UNCHANGED <<pc, data, skin, parser, anim>>

SpecTrack == InitTrack /\ [][EvalTrack]_vars

\* the duration of the global sequence the tracks of the model declare
TrackGlobalDuration == parser.global_sequences[parser.translation.global_sequence + 1]

\* the two evaluations fall on the same time of the global sequence
SameGlobalTime ==
    TrackGlobalDuration > 0 =>
        anim.time_ms % (QuartersPerMs * TrackGlobalDuration)
            = lastOp.time_ms % (QuartersPerMs * TrackGlobalDuration)

\* C12: for a track with a valid global-sequence id, the resolved slot and
\* time and the interpolated vec3 and quaternion values are the same under
\* any two active sequences a, b and times ta, tb with ta mod D = tb mod D.
C12_ClipIndependent ==
    (lastOp.op = "interp" /\ OnGlobalSequence(parser, parser.translation)
       /\ SameGlobalTime)
        => skinned.first = skinned.second

\* two different clips at two different times gave the same value between keys
C12_TwoClipsSeen ==
    /\ lastOp.op = "interp"
    /\ OnGlobalSequence(parser, parser.translation)
    /\ TrackGlobalDuration > 0
    /\ anim.current_seq # lastOp.seq
    /\ anim.time_ms # lastOp.time_ms
    /\ SameGlobalTime
    /\ parser.translation.interp = 1
    /\ skinned.first.trans = Value(<<Rat(5, 8), Rat(3, 2), R(0)>>)
    /\ skinned.second.trans = skinned.first.trans

(***************************************************************************)
(* The bone hierarchy: claims C13, C14, C15 (under SpecPose).  The models   *)
(* are the well-formed files with the parents of their two bones varied.   *)
(***************************************************************************)
Parents(d, parent0, parent1) == Override(Override(d, "parent0", parent0), "parent1", parent1)

\* the well-formed files (bone 1 under bone 0), the child before its parent,
\* two roots, a parent that is no bone
PoseFiles ==
    {Baseline(264), Baseline(256),
     Parents(Baseline(264), 1, -1), Parents(Baseline(256), 1, -1),
     Parents(Baseline(264), -1, -1), Parents(Baseline(256), -1, -1),
     Parents(Baseline(264), -1, 5),
     Override(Baseline(264), "nVerts", 0), Override(Baseline(256), "nVerts", 0),
     Override(Baseline(264), "nVerts", 1)}

RunPose == RunOn(PoseFiles, {NoSkinFile})

NextPose ==
    \/ RunPose
    \/ \E dt_ms \in {0, 16, 17} : Frame(dt_ms)
    \/ \E idx \in 0..2 : SetSequence(idx)

SpecPose == Init /\ [][NextPose]_vars

\* update has run to its end on a model with bones
PoseUpdated ==
    /\ pc = "running"
    /\ lastOp.op = "update"
    /\ Len(parser.bones) > 0

\* bone i (from 1) has a parent that is a bone of the model
HasParent(i) ==
    parser.bones[i].parent >= 0 /\ parser.bones[i].parent < Len(parser.bones)

\* bone i's local transform at the current sequence and time
LocalNow(i) == eval_bone(parser, parser.bones[i], anim.current_seq, anim.time_ms).v

\* bone i's parent comes before it in the array, or it has none (-1)
ParentBefore(i) ==
    parser.bones[i].parent = -1
    \/ (parser.bones[i].parent >= 0 /\ parser.bones[i].parent < i - 1)

\* C13: after every update, the matrix of a bone with a valid parent is the
\* parent's matrix of that same update composed with the bone's local
\* transform, and the matrix of a bone without one is its local transform.
\* A bone that comes before its parent (C14) is composed with the parent's
\* matrix of the update before.
C13_WorldFromParent ==
    PoseUpdated =>
        \A i \in 1..Len(parser.bones) :
            anim.bone_matrices[i]
                = IF HasParent(i)
                  THEN MatMul(anim.bone_matrices[parser.bones[i].parent + 1], LocalNow(i))
                  ELSE LocalNow(i)

\* C14: in every bone table the decoder produces, each bone's parent is -1 or
\* an index strictly smaller than the bone's own.  _parse_bones stores the
\* int16 it reads.
C14_ParentBeforeChild ==
    pc = "running" => \A i \in 1..Len(parser.bones) : ParentBefore(i)

\* C15: when every bone declares parent -1, after update every bone's world
\* matrix is its own local matrix.
C15_RootsAreLocal ==
    (PoseUpdated /\ \A i \in 1..Len(parser.bones) : parser.bones[i].parent = -1)
        => \A i \in 1..Len(parser.bones) : anim.bone_matrices[i] = LocalNow(i)

\* two roots have been posed away from the identity, each by its own tracks
C15_TwoRootsSeen ==
    /\ PoseUpdated
    /\ Len(parser.bones) = 2
    /\ \A i \in 1..2 : parser.bones[i].parent = -1
    /\ anim.bone_matrices[1] # Eye4
    /\ anim.bone_matrices[2] # Eye4
    /\ anim.bone_matrices[1] # anim.bone_matrices[2]

(***************************************************************************)
(* The ends of a track: claim C16 (under SpecTrack).                        *)
(***************************************************************************)
\* the timestamps and the vec3 and quaternion keys of the slot evaluation r fell on
SlotTs(r) == parser.translation.timestamps[r.at.seq + 1]
SlotVec3(r) == parser.translation.keys[r.at.seq + 1].v
SlotQuat(r) == parser.rotation.keys[r.at.seq + 1].v

AtOrBeforeFirst(r) == r.at.time <= QuartersPerMs * SlotTs(r)[1]
AtOrAfterLast(r) == r.at.time >= QuartersPerMs * SlotTs(r)[Len(SlotTs(r))]

\* evaluation r returned key number k of both tracks
ReturnedKey(r, k) ==
    /\ r.trans = Value(RVec(SlotVec3(r)[k]))
    /\ r.rot = Value(RVec(SlotQuat(r)[k]))

\* C16 (as the code has it): for every slot with at least one keyframe, both
\* tracks and every interpolation mode, a time at or before the first
\* timestamp returns the first key, and a time at or after the last timestamp
\* that is not also at or before the first returns the last key.
C16_EdgeKeys ==
    lastOp.op = "interp" =>
        \A r \in {skinned.first, skinned.second} :
            /\ AtOrBeforeFirst(r) => ReturnedKey(r, 1)
            /\ (AtOrAfterLast(r) /\ ~AtOrBeforeFirst(r))
                  => ReturnedKey(r, Len(SlotVec3(r)))

\* a linear track returned its first key at its first timestamp and its last
\* key past its last timestamp, and the two keys differ
C16_BothEndsSeen ==
    /\ lastOp.op = "interp"
    /\ parser.translation.interp = 1
    /\ AtOrBeforeFirst(skinned.first) /\ ReturnedKey(skinned.first, 1)
    /\ AtOrAfterLast(skinned.second) /\ ~AtOrBeforeFirst(skinned.second)
    /\ ReturnedKey(skinned.second, Len(SlotVec3(skinned.second)))
    /\ skinned.first.at.seq = skinned.second.at.seq
    /\ skinned.first.trans # skinned.second.trans

\* C16 as stated: every time at or after the last timestamp returns the last key
C16_AsStated ==
    lastOp.op = "interp" =>
        \A r \in {skinned.first, skinned.second} :
            /\ AtOrBeforeFirst(r) => ReturnedKey(r, 1)
            /\ AtOrAfterLast(r) => ReturnedKey(r, Len(SlotVec3(r)))

(***************************************************************************)
(* WMOParser: parse_root and parse_group.  A chunk is a 4-byte tag, a       *)
(* uint32 size and that many bytes; the tag may be stored byte-reversed.    *)
(***************************************************************************)
Reverse(s) == AsSeq([i \in 1..Len(s) |-> s[Len(s) + 1 - i]])

\* the tags as they read forward: MOHD MOTX MOMT MOGP MOVT MOVI MONR MOTV MOBA
Tag ==
    [MOHD |-> <<77, 79, 72, 68>>, MOTX |-> <<77, 79, 84, 88>>,
     MOMT |-> <<77, 79, 77, 84>>, MOGP |-> <<77, 79, 71, 80>>,
     MOVT |-> <<77, 79, 86, 84>>, MOVI |-> <<77, 79, 86, 73>>,
     MONR |-> <<77, 79, 78, 82>>, MOTV |-> <<77, 79, 84, 86>>,
     MOBA |-> <<77, 79, 66, 65>>]

\* data[a:b] of a bytes object: clipped to the buffer, never an error
BytesSlice(buf, a, b) == SubSeq(buf, a + 1, Min(b, Len(buf)))

\* a tag taken as it is stored, with no second byte order
CidAsStored(chunk_id) == chunk_id

\* cid = chunk_id if chunk_id[:1] == b"M" else chunk_id[::-1]
Cid(chunk_id) ==
    IF Len(chunk_id) >= 1 /\ chunk_id[1] = 77 THEN chunk_id ELSE Reverse(chunk_id)

WMOParser ==
    [textures |-> <<>>, texture_offset_map |-> <<>>, materials |-> <<>>,
     groups |-> <<>>, n_groups_expected |-> 0]

\* bytes.decode("ascii", errors="replace"): a byte over 127 becomes U+FFFD
DecodeAscii(bytes) ==
    AsSeq([i \in 1..Len(bytes) |-> IF bytes[i] < 128 THEN bytes[i] ELSE 65533])

\* data.find(b"\x00", from, to): the first zero byte in [from, to), or -1
RECURSIVE FindZero(_, _, _)
FindZero(buf, from, to) ==
    IF from >= to \/ from >= Len(buf) THEN -1
    ELSE IF buf[from + 1] = 0 THEN from
    ELSE FindZero(buf, from + 1, to)

\* texture_offset_map[off] = tex_idx: the dict as a sequence of (key, value)
DictPut(m, k, v) ==
    IF \E i \in 1..Len(m) : m[i][1] = k
    THEN AsSeq([i \in 1..Len(m) |-> IF m[i][1] = k THEN <<k, v>> ELSE m[i]])
    ELSE Append(m, <<k, v>>)

\* the MOTX loop: the null-terminated strings of the block, by their offset
RECURSIVE MotxLoop(_, _, _, _, _, _), MotxAt(_, _, _, _, _, _, _)
MotxLoop(self, buf, chunk_start, chunk_size, off, tex_idx) ==
    IF off >= chunk_size THEN self
    ELSE MotxAt(self, buf, chunk_start, chunk_size, off, tex_idx,
                FindZero(buf, chunk_start + off, chunk_start + chunk_size))

MotxAt(self, buf, chunk_start, chunk_size, off, tex_idx, end) ==
    IF end < 0 THEN self
    ELSE IF end > chunk_start + off
         THEN MotxLoop([self EXCEPT
                           !.texture_offset_map = DictPut(@, off, tex_idx),
                           !.textures = Append(@, DecodeAscii(
                                           BytesSlice(buf, chunk_start + off, end)))],
                       buf, chunk_start, chunk_size, end - chunk_start + 1, tex_idx + 1)
         ELSE MotxLoop(self, buf, chunk_start, chunk_size, off + 1, tex_idx)

\* one 64-byte material: sixteen uint32 fields, eight of them kept
WMOMaterial(buf, base) ==
    [flags |-> U32(buf, base), shader |-> U32(buf, base + 4),
     blend_mode |-> U32(buf, base + 8), texture1_ofs |-> U32(buf, base + 12),
     color1 |-> U32(buf, base + 16), texture2_ofs |-> U32(buf, base + 24),
     color2 |-> U32(buf, base + 28), texture3_ofs |-> U32(buf, base + 36)]

Materials(buf, chunk_start, chunk_size) ==
    AsSeq([i \in 1..(chunk_size \div 64) |-> WMOMaterial(buf, chunk_start + (i - 1) * 64)])

\* what parse_root does with one chunk that lies inside the buffer
RootChunk(self, buf, cid, chunk_start, chunk_size) ==
    IF cid = Tag.MOHD /\ chunk_size >= 16
    THEN [self EXCEPT !.n_groups_expected = U32(buf, chunk_start + 4)]
    ELSE IF cid = Tag.MOTX THEN MotxLoop(self, buf, chunk_start, chunk_size, 0, 0)
    ELSE IF cid = Tag.MOMT
         THEN [self EXCEPT !.materials = @ \o Materials(buf, chunk_start, chunk_size)]
    ELSE self

\* the chunk loop of parse_root from offset pos
RECURSIVE RootLoop(_, _, _), RootAt(_, _, _, _)
RootLoop(self, buf, pos) ==
    IF pos + 8 > Len(buf) THEN self
    ELSE RootAt(self, buf, pos, U32(buf, pos + 4))

RootAt(self, buf, pos, chunk_size) ==
    IF pos + 8 + chunk_size > Len(buf) THEN self
    ELSE RootLoop(RootChunk(self, buf, Cid(BytesSlice(buf, pos, pos + 4)),
                            pos + 8, chunk_size),
                  buf, pos + 8 + chunk_size)

parse_root(self, buf) == RootLoop(self, buf, 0)

WMOGroup == [positions |-> <<>>, normals |-> <<>>, uvs |-> <<>>, indices |-> <<>>,
             batches |-> <<>>]

\* one 24-byte batch: startIndex at +12, indexCount at +16, materialId at +23
WMOBatch(buf, base) ==
    [start_index |-> U32(buf, base + 12), index_count |-> U16(buf, base + 16),
     material_id |-> U8(buf, base + 23)]

\* the first loop of parse_group: the MOGP chunk that wraps the sub-chunks.
\* mogp_end is taken from the declared size as it is.
RECURSIVE MogpScan(_, _)
MogpScan(buf, pos) ==
    IF pos + 8 > Len(buf) THEN [start |-> -1, end |-> Len(buf)]
    ELSE IF Cid(BytesSlice(buf, pos, pos + 4)) = Tag.MOGP
         THEN [start |-> pos + 8 + 68, end |-> pos + 8 + U32(buf, pos + 4)]
         ELSE MogpScan(buf, pos + 8 + U32(buf, pos + 4))

GroupOk(group) == [raised |-> FALSE, group |-> group]
GroupRaised(group) == [raised |-> TRUE, group |-> group]

\* n records of `size` bytes from chunk_start, by struct.unpack_from or
\* np.frombuffer: an error when they do not lie inside the buffer
Records(buf, group, field, chunk_start, n, size, Elem(_, _)) ==
    IF n > 0 /\ ~CanUnpack(buf, chunk_start, n * size) THEN GroupRaised(group)
    ELSE GroupOk([group EXCEPT
                    ![field] = AsSeq([i \in 1..n |-> Elem(buf, chunk_start + (i - 1) * size)])])

\* the batches are appended to those the group has
BatchRecords(buf, group, chunk_start, n) ==
    IF n > 0 /\ ~CanUnpack(buf, chunk_start, n * 24) THEN GroupRaised(group)
    ELSE GroupOk([group EXCEPT
                    !.batches = @ \o AsSeq([i \in 1..n |->
                                               WMOBatch(buf, chunk_start + (i - 1) * 24)])])

\* what parse_group does with one sub-chunk that lies inside mogp_end
GroupChunk(buf, group, cid, chunk_start, chunk_size) ==
    IF cid = Tag.MOVT
    THEN Records(buf, group, "positions", chunk_start, chunk_size \div 12, 12, Vec3F)
    ELSE IF cid = Tag.MOVI
    THEN Records(buf, group, "indices", chunk_start, chunk_size \div 2, 2, U16)
    ELSE IF cid = Tag.MONR
    THEN Records(buf, group, "normals", chunk_start, chunk_size \div 12, 12, Vec3F)
    ELSE IF cid = Tag.MOTV
    THEN Records(buf, group, "uvs", chunk_start, chunk_size \div 8, 8, Vec2F)
    ELSE IF cid = Tag.MOBA
    THEN BatchRecords(buf, group, chunk_start, chunk_size \div 24)
    ELSE GroupOk(group)

\* the second loop of parse_group, from pos up to mogp_end.  The size field is
\* read by an unchecked struct.unpack_from.
RECURSIVE GroupLoop(_, _, _, _), GroupAt(_, _, _, _, _), GroupNext(_, _, _, _)
GroupLoop(buf, group, pos, mogp_end) ==
    IF pos + 8 > mogp_end THEN GroupOk(group)
    ELSE IF ~CanUnpack(buf, pos + 4, 4) THEN GroupRaised(group)
    ELSE GroupAt(buf, group, pos, mogp_end, U32(buf, pos + 4))

GroupAt(buf, group, pos, mogp_end, chunk_size) ==
    IF pos + 8 + chunk_size > mogp_end THEN GroupOk(group)
    ELSE GroupNext(buf, GroupChunk(buf, group, Cid(BytesSlice(buf, pos, pos + 4)),
                                   pos + 8, chunk_size),
                   pos + 8 + chunk_size, mogp_end)

GroupNext(buf, r, pos, mogp_end) ==
    IF r.raised THEN r ELSE GroupLoop(buf, r.group, pos, mogp_end)

ScanFrom(buf, mogp) ==
    GroupLoop(buf, WMOGroup, IF mogp.start >= 0 THEN mogp.start ELSE 0, mogp.end)

\* texture_offset_map.get(motx_offset): the value, or -1 for None
DictGet(m, k) ==
    IF \E i \in 1..Len(m) : m[i][1] = k
    THEN m[CHOOSE i \in 1..Len(m) : m[i][1] = k][2]
    ELSE -1

\* get_texture_name: the name ("" is the empty sequence)
get_texture_name(self, motx_offset) ==
    IF DictGet(self.texture_offset_map, motx_offset) >= 0
       /\ DictGet(self.texture_offset_map, motx_offset) < Len(self.textures)
    THEN self.textures[DictGet(self.texture_offset_map, motx_offset) + 1]
    ELSE <<>>

\* parse_group filling the group the parser decoded last instead of a new one
parse_group_into_last(self, buf) ==
    GroupLoop(buf,
              IF Len(self.groups) > 0 THEN self.groups[Len(self.groups)] ELSE WMOGroup,
              IF MogpScan(buf, 0).start >= 0 THEN MogpScan(buf, 0).start ELSE 0,
              MogpScan(buf, 0).end)

\* parse_group(data): [raised, group]; self is not used
parse_group(self, buf) == ScanFrom(buf, MogpScan(buf, 0))

(***************************************************************************)
(* The WMO files the specifications read.  A file is a list of chunks; a    *)
(* chunk descriptor names its tag, whether the tag is stored reversed, and  *)
(* by how much its declared size exceeds its payload.                       *)
(***************************************************************************)
\* a chunk no parser looks at
TagMVER == <<77, 86, 69, 82>>

TagBytes(name) == IF name = "MVER" THEN TagMVER ELSE Tag[name]

\* the payload of every chunk: MOHD declares 3 groups; MOTX holds "a", padding
\* and "b\xC8"; MOMT one material; MOVT and MONR two vectors; MOVI three
\* indices; MOTV two pairs; MOBA one batch
WmoPayload ==
    [MVER |-> E32(17),
     MOHD |-> E32(2) \o E32(3) \o Zeros(8),
     MOTX |-> <<97, 0, 0, 0, 98, 200, 0>>,
     MOMT |-> Concat(AsSeq([i \in 1..16 |-> E32(i)])),
     MOVT |-> EVec3(<<1, 2, 3>>) \o EVec3(<<0, -1, 0>>),
     MOVI |-> E16(0) \o E16(1) \o E16(0),
     MONR |-> EVec3(<<0, 0, 1>>) \o EVec3(<<0, 1, 0>>),
     MOTV |-> EF32(0) \o EF32(1) \o EF32(1) \o EF32(0),
     MOBA |-> Zeros(12) \o E32(0) \o E16(3) \o Zeros(5) \o <<7>>]

ChunkOf(tag) == [tag |-> tag, rev |-> FALSE, over |-> 0]

\* the payload of chunk c: its own when the descriptor holds one
PayloadOf(c) == IF "payload" \in DOMAIN c THEN c.payload ELSE WmoPayload[c.tag]

EChunk(c) ==
    (IF c.rev THEN Reverse(TagBytes(c.tag)) ELSE TagBytes(c.tag))
    \o E32(Len(PayloadOf(c)) + c.over) \o PayloadOf(c)

EChunks(chunks) == Concat(AsSeq([i \in 1..Len(chunks) |-> EChunk(chunks[i])]))

\* a file descriptor: mogp says whether the chunks lie inside a MOGP chunk
\* ("fwd", "rev") or not ("none"); mogp_over is added to the size MOGP declares
WmoBaseline(tags) ==
    [chunks |-> AsSeq([i \in 1..Len(tags) |-> ChunkOf(tags[i])]),
     mogp |-> "none", mogp_over |-> 0, cut |-> -1]

\* the MOGP chunk: tag, size, the 68-byte group header, the sub-chunks
Wrapped(d, body) ==
    (IF d.mogp = "rev" THEN Reverse(Tag.MOGP) ELSE Tag.MOGP)
    \o E32(68 + Len(body) + d.mogp_over) \o Zeros(68) \o body

WmoFile(d) ==
    CutAt(IF d.mogp = "none" THEN EChunks(d.chunks) ELSE Wrapped(d, EChunks(d.chunks)),
          d.cut)

\* the same file with every tag stored forward
Forward(d) ==
    [d EXCEPT !.chunks = AsSeq([i \in 1..Len(d.chunks) |-> [d.chunks[i] EXCEPT !.rev = FALSE]]),
              !.mogp = IF d.mogp = "rev" THEN "fwd" ELSE d.mogp]

AllReversed(d) ==
    [d EXCEPT !.chunks = AsSeq([i \in 1..Len(d.chunks) |-> [d.chunks[i] EXCEPT !.rev = TRUE]])]

\* d with the tag of one chunk reversed, and d with all of them
ReversedTags(d) ==
    {[d EXCEPT !.chunks[i].rev = TRUE] : i \in 1..Len(d.chunks)} \cup {AllReversed(d)}

\* d with the declared size of one chunk one byte past its payload
Oversized(d) == {[d EXCEPT !.chunks[i].over = 1] : i \in 1..Len(d.chunks)}

RootBaseline == WmoBaseline(<<"MOHD", "MOTX", "MOMT">>)

\* root files: no file, the well-formed one, reversed tags, a size past the end,
\* a chunk of no interest first, a file that ends inside its last chunk
WmoRoots ==
    {WmoBaseline(<<>>), RootBaseline} \cup ReversedTags(RootBaseline)
    \cup Oversized(RootBaseline)
    \cup {WmoBaseline(<<"MVER", "MOHD", "MOTX", "MOMT">>),
          [RootBaseline EXCEPT !.cut = 60]}

GroupBaseline(mogp) ==
    [WmoBaseline(<<"MOVT", "MOVI", "MONR", "MOTV", "MOBA">>) EXCEPT !.mogp = mogp]

\* group files: with and without the MOGP chunk, reversed tags, a sub-chunk
\* past the end, a MOGP chunk that declares more than the file holds, a file
\* that ends inside the MOGP chunk
WmoGroups ==
    UNION {{GroupBaseline(mogp)} \cup ReversedTags(GroupBaseline(mogp)) :
              mogp \in {"none", "fwd", "rev"}}
    \cup Oversized(GroupBaseline("fwd"))
    \cup {[GroupBaseline("fwd") EXCEPT !.mogp_over = n] : n \in {1, 8}}
    \cup {[GroupBaseline(mogp) EXCEPT !.cut = 90] : mogp \in {"fwd", "rev"}}

(***************************************************************************)
(* WMOViewerWindow.run: a new WMOParser, parse_root on the root file, then  *)
(* parse_group on every group file, each group appended to parser.groups.   *)
(***************************************************************************)
MaxGroups == 1

\* the static data parse_root leaves in the parser
RootData(p) ==
    [textures |-> p.textures, texture_offset_map |-> p.texture_offset_map,
     materials |-> p.materials, n_groups_expected |-> p.n_groups_expected]

WmoRootOn(roots) ==
    /\ pc = "start"
    /\ \E d \in roots :
         \E buf \in {WmoFile(d)} :
            /\ data' = buf
            /\ parser' = parse_root(WMOParser, buf)
            /\ lastOp' = [op |-> "parse_root", file |-> d, raised |-> FALSE, root |-> d,
                           decoded |-> <<>>]
    /\ pc' = "wmo"
    /\ UNCHANGED <<skin, anim, skinned>>

\* lastOp.decoded lists the group files handed to parse_group so far
WmoGroupOn(groups, limit) ==
    /\ pc = "wmo"
    /\ Len(parser.groups) < limit
    /\ \E d \in groups :
         \E buf \in {WmoFile(d)} :
          \E r \in {parse_group(parser, buf)} :
            /\ data' = buf
            /\ lastOp' = [lastOp EXCEPT !.op = "parse_group", !.file = d,
                                        !.raised = r.raised,
                                        !.decoded = Append(@, d)]
            /\ IF r.raised
               THEN pc' = "crashed" /\ parser' = parser
               ELSE pc' = pc /\ parser' = [parser EXCEPT !.groups = Append(@, r.group)]
    /\ UNCHANGED <<skin, anim, skinned>>

WmoRoot == WmoRootOn(WmoRoots)
WmoGroup == WmoGroupOn(WmoGroups, MaxGroups)

NextWmo == WmoRoot \/ WmoGroup

SpecWmo == Init /\ [][NextWmo]_vars

(***************************************************************************)
(* WMO decoding: claims C17, C18 (under SpecWmo).                           *)
(***************************************************************************)
\* the step just taken decoded a root file / a group file
RootDecoded == pc \in {"wmo", "crashed"} /\ lastOp.op = "parse_root"
GroupDecoded == pc \in {"wmo", "crashed"} /\ lastOp.op = "parse_group"

\* what parse_group made of the last group file: the error, or the group
LastGroup ==
    IF lastOp.raised THEN GroupRaised(WMOGroup)
    ELSE GroupOk(parser.groups[Len(parser.groups)])

Outcome(r) == IF r.raised THEN GroupRaised(WMOGroup) ELSE r

\* C17: a root or group file with any of its chunk tags stored byte-reversed
\* decodes to the same materials, texture names, positions, normals, UVs,
\* indices and batches as the file with every tag stored forward.
C17_TagOrderIrrelevant ==
    /\ RootDecoded
          => RootData(parser) = RootData(parse_root(WMOParser, WmoFile(Forward(lastOp.file))))
    /\ GroupDecoded
          => LastGroup = Outcome(parse_group(WMOParser, WmoFile(Forward(lastOp.file))))

\* a group file with its MOGP tag and a sub-chunk tag reversed has been
\* decoded to its geometry
C17_ReversedSeen ==
    /\ GroupDecoded /\ ~lastOp.raised
    /\ lastOp.file.mogp = "rev"
    /\ \E i \in 1..Len(lastOp.file.chunks) : lastOp.file.chunks[i].rev
    /\ Len(parser.groups[Len(parser.groups)].positions) = 2
    /\ Len(parser.groups[Len(parser.groups)].indices) = 3
    /\ Len(parser.groups[Len(parser.groups)].batches) = 1

\* C18: for every buffer, root and group decoding stop at the first chunk
\* whose declared size runs past the end of the buffer and raise nothing,
\* also when it is the wrapping MOGP chunk that declares more than the bytes
\* that remain.  parse_group takes mogp_end from the declared size and reads
\* up to it.
C18_ScanStopsAtEnd ==
    (RootDecoded \/ GroupDecoded) => (pc = "wmo" /\ ~lastOp.raised)

(***************************************************************************)
(* Decoding again: claim C19 (under SpecSession).  One viewer decodes an M2 *)
(* file and its skin and then animates; the other decodes a WMO root and    *)
(* several group files with one parser.                                     *)
(***************************************************************************)
SessionFiles == {Baseline(264), Baseline(256), Embedded}
SessionSkins == {NoSkinFile, [exists |-> TRUE, bytes |-> SkinFile(SkinBaseline)]}
SessionRoots == {WmoBaseline(<<>>), RootBaseline}
SessionGroups ==
    {GroupBaseline("fwd"), GroupBaseline("none"), AllReversed(GroupBaseline("rev")),
     [GroupBaseline("fwd") EXCEPT !.chunks[5].rev = TRUE, !.chunks[1].over = 1],
     [GroupBaseline("fwd") EXCEPT !.mogp_over = 8]}

NextSession ==
    \/ RunOn(SessionFiles, SessionSkins)
    \/ \E dt_ms \in {0, 16, 17} : Frame(dt_ms)
    \/ \E idx \in 0..2 : SetSequence(idx)
    \/ WmoRootOn(SessionRoots)
    \/ WmoGroupOn(SessionGroups, MaxGroups + 1)

SpecSession == Init /\ [][NextSession]_vars

\* what a new M2Parser and parse_skin_data make of the bytes the viewer read
DecodedAgain == Stored(LoadSkin(M2Parser(data), data, skin))

\* what a new WMOParser makes of the i-th group file the viewer decoded
GroupAgain(i) == parse_group(WMOParser, WmoFile(lastOp.decoded[i]))

C19_AnimatedSeen ==
    /\ pc = "running" /\ lastOp.op = "update"
    /\ anim.time_ms > 0 /\ Len(anim.bone_matrices) > 0
    /\ Len(parser.triangles) > 0 /\ Len(parser.positions) > 0

(***************************************************************************)
(* The size of the skinned buffer: claim C20 (under SpecPose).              *)
(***************************************************************************)
\* the main loop has just skinned: update ran to its end and left bone
\* matrices, and the model has a bone-lookup table
SkinnedThisFrame ==
    /\ pc = "running" /\ lastOp.op = "update"
    /\ Len(anim.bone_matrices) > 0 /\ Len(parser.bone_lookup) > 0

\* nVerts as the header of the file declares it
DeclaredVerts == U32(data, hdr(parser.is_vanilla, "nVerts"))

\* C20: skin_vertices returns one position of three components for each input
\* vertex; a file whose header declares nVerts = 0 decodes to no vertices, and
\* skinning it returns the empty buffer and raises nothing.
C20_OnePositionPerVertex ==
    /\ (pc = "running" /\ DeclaredVerts = 0) => parser.positions = <<>>
    /\ SkinnedThisFrame
          => /\ Len(skinned) = Len(parser.positions)
             /\ \A v \in 1..Len(skinned) : Len(skinned[v]) = 3
             /\ DeclaredVerts = 0 => skinned = <<>>

\* a model with bones and a bone-lookup table but no vertices has been skinned
C20_NoVerticesSkinned ==
    /\ SkinnedThisFrame
    /\ DeclaredVerts = 0
    /\ Len(parser.bones) > 0
    /\ skinned = <<>>

\* a model with three vertices, one of them without weights, has been skinned
C20_ThreeVerticesSkinned ==
    /\ SkinnedThisFrame
    /\ Len(parser.positions) = 3
    /\ Len(skinned) = 3

(***************************************************************************)
(* The track decoders on their own, followed by the interpolation of the    *)
(* decoded track (under SpecTrackDecode).  A track file holds one track     *)
(* header at offset 0, its tables, five timestamps and five keys.           *)
(***************************************************************************)
FlatTs == <<0, 2, 4, 6, 8>>
FlatVec3 == <<(<<1, 0, 0>>), (<<0, 4, 0>>), (<<0, 0, 2>>), (<<3, 0, 0>>), (<<0, 5, 0>>)>>

TsBytes == Concat(AsSeq([i \in 1..5 |-> E32(FlatTs[i])]))
Vec3Bytes == Concat(AsSeq([i \in 1..5 |-> EVec3(FlatVec3[i])]))

KeySize(dtype) == IF dtype = "vec3" THEN 12 ELSE IF dtype = "c4quat" THEN 16 ELSE 8

KeyBytes(dtype) ==
    IF dtype = "vec3" THEN Vec3Bytes
    ELSE IF dtype = "c4quat" THEN Quat4FData(QuatKeys)
    ELSE CompressedData(QuatKeys)

\* nested shape: header (20), two timestamp sub-array headers, two key
\* sub-array headers, the timestamps, the keys.  Slot 0 declares ts_count
\* timestamps and key_count keys from the start of the arrays, slot 1 the
\* last two of each.
NestedTrackFile(d) ==
    ES16(d.interp) \o ES16(-1) \o EArray(d.n_ts, 20) \o EArray(d.n_keys, 36)
    \o EArray(d.ts_count, 52) \o EArray(2, 52 + 3 * 4)
    \o EArray(d.key_count, 72) \o EArray(2, 72 + 3 * KeySize(d.dtype))
    \o TsBytes \o KeyBytes(d.dtype)

\* flat shape: header (28), three ranges, the timestamps, the keys
FlatTrackFile(d) ==
    ES16(d.interp) \o ES16(-1) \o EArray(d.n_ranges, 28) \o EArray(d.n_ts, 52)
    \o EArray(d.n_keys, 72)
    \o EArray(d.range0[1], d.range0[2]) \o EArray(3, 5) \o EArray(2, 2)
    \o TsBytes \o KeyBytes(d.dtype)

TrackFile(d) == IF d.shape = "nested" THEN NestedTrackFile(d) ELSE FlatTrackFile(d)

NestedTracks ==
    {[shape |-> "nested", dtype |-> dtype, interp |-> interp, n_ts |-> n_ts,
      n_keys |-> n_keys, ts_count |-> ts_count, key_count |-> key_count] :
        dtype \in {"vec3", "compressed_quat"}, interp \in {0, 1},
        n_ts \in {0, 1, 2, 5001}, n_keys \in {0, 1, 2},
        ts_count \in {2, 3}, key_count \in {2, 3, 6}}

FlatTracks ==
    {[shape |-> "flat", dtype |-> dtype, interp |-> interp, n_ranges |-> n_ranges,
      n_ts |-> n_ts, n_keys |-> n_keys, range0 |-> range0] :
        dtype \in {"vec3", "c4quat"}, interp \in {0, 1},
        n_ranges \in {0, 1, 3, 5000}, n_ts \in {0, 3, 5}, n_keys \in {0, 3, 5},
        range0 \in {<<0, 2>>, <<0, 4>>, <<4, 6>>}}

ParseTrack(d, buf) ==
    IF d.shape = "nested" THEN parse_track_wotlk(buf, 0, KeySize(d.dtype), d.dtype)
    ELSE parse_track_vanilla(buf, 0, KeySize(d.dtype), d.dtype)

\* the decoder of the shape applied to the track at offset 0 of a file
DecodeTrack ==
    /\ pc = "start"
    /\ \E d \in NestedTracks \cup FlatTracks :
         \E buf \in {TrackFile(d)} :
            /\ data' = buf
            /\ parser' = [global_sequences |-> <<>>, track |-> ParseTrack(d, buf)]
            /\ lastOp' = [op |-> "parse_track", file |-> d]
    /\ pc' = "decoded"
    /\ UNCHANGED <<skin, anim, skinned>>

\* the times (quarter ms) and the sequence indices the track is evaluated at
DecodedTimes == {0, 4, 8, 12, 20, 32}
DecodedSeqs == {0, 1, 2}

\* _interp_vec3 on a vec3 track, _interp_quat on a quaternion track
InterpDecoded(p, dtype, seq_idx, time_ms) ==
    IF dtype = "vec3" THEN interp_vec3(p, p.track, seq_idx, time_ms, RVec(<<0, 0, 0>>))
    ELSE interp_quat(p, p.track, seq_idx, time_ms)

InterpTrack ==
    /\ pc = "decoded"
    /\ lastOp.op = "parse_track"
    /\ \E seq_idx \in DecodedSeqs, time_ms \in DecodedTimes :
         \E r \in {InterpDecoded(parser, lastOp.file.dtype, seq_idx, time_ms)} :
            /\ skinned' = r
            /\ lastOp' = [lastOp EXCEPT !.op = "interp"]
                            @@ [seq |-> seq_idx, time_ms |-> time_ms]
            /\ pc' = IF r.raised THEN "crashed" ELSE pc
    /\ UNCHANGED <<data, skin, parser, anim>>

NextTrackDecode == DecodeTrack \/ InterpTrack

SpecTrackDecode == Init /\ [][NextTrackDecode]_vars

TrackDecoded == pc \in {"decoded", "crashed"}

\* C21: a decoded track has as many key slots as timestamp slots, and in each
\* slot as many keys as timestamps.  The nested decoder reads the two slot
\* counts and the two sub-array counts of a slot from separate header fields
\* and the flat decoder empties the key slot alone when the range ends past
\* the keys.
C21_SlotsPaired ==
    TrackDecoded
        => /\ Len(parser.track.timestamps) = Len(parser.track.keys)
           /\ \A s \in 1..Len(parser.track.timestamps) :
                 Len(parser.track.timestamps[s]) = Len(parser.track.keys[s].v)

\* C22: _interp_vec3 and _interp_quat return a value for every decoded track,
\* sequence index and time.  Between two timestamps they read keys[idx] and
\* keys[idx + 1] with idx taken from the timestamps alone.
C22_InterpNeverRaises ==
    (TrackDecoded /\ lastOp.op = "interp") => ~skinned.raised

(***************************************************************************)
(* update() when the clock must stand still: claim C23 (under SpecClock).   *)
(* The viewer with the pause key and the next / previous sequence keys.     *)
(***************************************************************************)
ClockFiles == {Baseline(264), Baseline(256), Override(Baseline(264), "nAnims", 0)}
ClockKeys == {"SPACE", "RIGHT", "LEFT"}

NextClock ==
    \/ RunOn(ClockFiles, {NoSkinFile})
    \/ \E dt_ms \in {0, 16, 17} : Frame(dt_ms)
    \/ \E key \in ClockKeys : HandleKey(key)

SpecClock == Init /\ [][NextClock]_vars

\* this step is update(dt) of the main loop
UpdateStep == pc = "running" /\ lastOp'.op = "update"

\* the clock has no sequence to run in: the model has no sequences, or the
\* active one has a duration of zero
NoDuration == Len(parser.animations) = 0 \/ ActiveDuration = 0

C23_ZeroDurationSeen ==
    /\ pc = "running"
    /\ lastOp.op = "update" /\ lastOp.dt_ms > 0
    /\ anim.playing
    /\ Len(parser.animations) > 0 /\ ActiveDuration = 0

(***************************************************************************)
(* Between two keyframes: claim C24 (under SpecTrackDecode).                *)
(***************************************************************************)
\* the slot the last evaluation fell on exists in both arrays of the track
EvalSlotExists ==
    /\ lastOp.seq < Len(parser.track.timestamps)
    /\ lastOp.seq < Len(parser.track.keys)

EvalTs == parser.track.timestamps[lastOp.seq + 1]
EvalKeys == parser.track.keys[lastOp.seq + 1]

Ascending(ts) == \A i \in 1..(Len(ts) - 1) : ts[i] <= ts[i + 1]

\* the evaluation time lies strictly between the first and the last timestamp
\* of a slot that has timestamps in ascending order and an array of keys
StrictlyInside ==
    /\ TrackDecoded /\ lastOp.op = "interp"
    /\ EvalSlotExists
    /\ Len(EvalTs) > 0 /\ Len(EvalKeys.v) > 0 /\ EvalKeys.dim = 2
    /\ Ascending(EvalTs)
    /\ QuartersPerMs * EvalTs[1] < lastOp.time_ms
    /\ lastOp.time_ms < QuartersPerMs * EvalTs[Len(EvalTs)]

\* the index (from 1) of the timestamp pair that brackets the evaluation time
BracketOf(ts, t) ==
    CHOOSE i \in 1..(Len(ts) - 1) :
        QuartersPerMs * ts[i] <= t /\ t < QuartersPerMs * ts[i + 1]

FracOf(ts, i, t) ==
    IF ts[i + 1] = ts[i] THEN R(0)
    ELSE Rat(t - QuartersPerMs * ts[i], QuartersPerMs * (ts[i + 1] - ts[i]))

BlendOf(dtype, k0, k1, frac) ==
    IF dtype = "vec3" THEN Lerp(k0, k1, frac) ELSE SlerpKeys(k0, k1, frac)

Bracketed(dtype, interp, ts, keys, i, t) ==
    IF interp = 0 THEN RVec(keys[i])
    ELSE BlendOf(dtype, keys[i], keys[i + 1], FracOf(ts, i, t))

\* C24: for a slot with ascending timestamps and a time strictly between the
\* first and the last of them, the interpolation returns keys[idx] in mode 0
\* and otherwise the blend of keys[idx] and keys[idx + 1] at frac, where
\* ts[idx] <= t < ts[idx + 1] and frac = (t - ts[idx]) / (ts[idx + 1] - ts[idx])
\* lies in [0, 1).  The keys are read whatever their number (C22).
C24_Bracketed ==
    StrictlyInside
        => /\ ~skinned.raised
           /\ \E i \in {BracketOf(EvalTs, lastOp.time_ms)} :
                /\ ~RLess(FracOf(EvalTs, i, lastOp.time_ms), R(0))
                /\ RLess(FracOf(EvalTs, i, lastOp.time_ms), R(1))
                /\ skinned.v = Bracketed(lastOp.file.dtype, parser.track.interp,
                                         EvalTs, EvalKeys.v, i, lastOp.time_ms)

(***************************************************************************)
(* The flat shape split by its ranges: claim C25 (under SpecTrackDecode).   *)
(* What the file holds is read off its descriptor.                         *)
(***************************************************************************)
FlatDecoded == TrackDecoded /\ lastOp.file.shape = "flat"

\* the flat arrays the header of file d declares, and its range table
FileTs(d) == SubSeq(FlatTs, 1, d.n_ts)
FileKeys(d) == SubSeq(IF d.dtype = "vec3" THEN FlatVec3 ELSE QuatKeys, 1, d.n_keys)
FileRanges(d) == <<d.range0, <<3, 5>>, <<2, 2>>>>

\* the range table is in the buffer and has between 1 and 4999 entries
HasRanges(d) == d.n_ranges > 0 /\ d.n_ranges < 5000

RangeValid(d, rng) == rng[2] > rng[1] /\ rng[2] <= d.n_ts

\* the key arrays of the decoded track, without their shape
KeyValues == AsSeq([s \in 1..Len(parser.track.keys) |-> parser.track.keys[s].v])

\* a[start:end] as Python slices it
PySlice(a, start, end) == SubSeq(a, start + 1, Min(end, Len(a)))

BoneSize(van) == IF van THEN 108 ELSE 88

\* the bone records the header of buf declares lie at ofs, ofs + size, ...;
\* record k (from 0) fits when it ends inside the buffer
BoneRecordFits(buf, van, k) ==
    U32(buf, hdr(van, "ofsBones")) + (k + 1) * BoneSize(van) <= Len(buf)

\* the number of declared records in the longest prefix of records that fit;
\* none when the declared count is over the ceiling
BonePrefixLen(buf, van) ==
    IF U32(buf, hdr(van, "nBones")) > 5000 THEN 0
    ELSE Cardinality({k \in 0..(Min(U32(buf, hdr(van, "nBones")), 3) - 1) :
                         \A j \in 0..k : BoneRecordFits(buf, van, j)})

BoneRecord(buf, van, k) ==
    IF van THEN BoneVanilla(buf, U32(buf, hdr(van, "ofsBones")) + k * 108)
    ELSE BoneWotlk(buf, U32(buf, hdr(van, "ofsBones")) + k * 88)

\* the header of buf holds the two fields that declare the bone table
BonesDeclared(buf, van) == Len(buf) >= hdr(van, "ofsBones") + 4

\* C26: for every buffer handed to M2Parser the constructor completes and the
\* bone table is the longest prefix of the declared records that fit inside
\* the buffer, bone k being record k; a count over the ceiling of 5000 gives
\* the empty table.  A buffer that ends inside the header raises (C1).
C26_BonePrefix ==
    HandedToParser =>
        /\ pc = "running"
        /\ \E van \in {U32(data, 4) <= 256} :
             BonesDeclared(data, van) =>
                /\ Len(parser.bones) = BonePrefixLen(data, van)
                /\ \A k \in 1..Len(parser.bones) :
                      parser.bones[k] = BoneRecord(data, van, k - 1)

(***************************************************************************)
(* Pairs that do not count: claim C27 (under SpecSkinVertices).             *)
(***************************************************************************)
\* the bone matrix pair j of vertex v maps to
PairMatrix(v, j) ==
    anim.bone_matrices[parser.bone_lookup[parser.bone_indices[v][j] + 1] + 1]

\* what pair j of vertex v adds to the homogeneous sum: the position under its
\* bone matrix times weight / 255 when the pair is valid, nothing otherwise
ValidTerm(v, j) ==
    IF ValidContribution(v, j)
    THEN Scaled(MatVec(PairMatrix(v, j),
                       <<R(parser.positions[v][1]), R(parser.positions[v][2]),
                         R(parser.positions[v][3]), R(1)>>),
                Rat(parser.bone_weights[v][j], 255))
    ELSE <<R(0), R(0), R(0), R(0)>>

\* accumulated x, y, z, w of the valid pairs of vertex v
ValidSum(v) == Sum4(AsSeq([j \in 1..4 |-> ValidTerm(v, j)]))

\* C27: a pair whose weight is at most the epsilon, whose bone index is outside
\* the bone-lookup table or whose looked-up bone is outside the bone matrices
\* adds nothing to x, y, z or w; the position returned for a vertex is the
\* accumulated x, y, z of its valid pairs divided by their accumulated w.
C27_OnlyValidContribute ==
    SkinningDone =>
        \A v \in 1..Len(parser.positions) :
            \E acc \in {ValidSum(v)} :
                acc[4] # R(0)
                    => skinned[v] = <<RDiv(acc[1], acc[4]), RDiv(acc[2], acc[4]),
                                      RDiv(acc[3], acc[4])>>

\* a vertex with one valid pair and one pair of weight over the epsilon whose
\* bone index is outside the lookup table has been skinned to a place that is
\* not its rest position
C27_InvalidPairSeen ==
    /\ SkinningDone
    /\ ValidContribution(1, 2)
    /\ parser.bone_weights[1][1] * 1000 > 255
    /\ parser.bone_indices[1][1] >= Len(parser.bone_lookup)
    /\ skinned[1] # RVec(parser.positions[1])

\* a vertex with one valid pair and one pair whose looked-up bone is outside
\* the bone matrices has been skinned
C27_MissingBoneSeen ==
    /\ SkinningDone
    /\ \E j, k \in 1..4 :
          /\ ValidContribution(1, j)
          /\ parser.bone_weights[1][k] * 1000 > 255
          /\ parser.bone_indices[1][k] < Len(parser.bone_lookup)
          /\ parser.bone_lookup[parser.bone_indices[1][k] + 1] >= Len(anim.bone_matrices)

(***************************************************************************)
(* Texture names by offset: claim C28 (under SpecTextures).  Root files     *)
(* with different string tables, and the lookup the renderer makes for a    *)
(* material's texture offset.                                               *)
(***************************************************************************)
\* "a", padding, "b\xC8"; nothing; padding first; a last name without its NUL;
\* three names back to back; one NUL; one name without NUL; one name twice
StringTables ==
    {<<97, 0, 0, 0, 98, 200, 0>>, <<>>, <<0, 0, 99, 100, 0>>, <<97, 0, 98>>,
     <<97, 98, 0, 99, 0, 100, 0>>, <<0>>, <<97>>, <<97, 0, 97, 0>>}

Motx(table) == [ChunkOf("MOTX") EXCEPT !.rev = FALSE] @@ [payload |-> table]

\* a root file with the string table `table`, and one with two string tables
RootWith(table) == [RootBaseline EXCEPT !.chunks[2] = Motx(table)]
RootWithTwo(first, second) ==
    [RootBaseline EXCEPT !.chunks = <<ChunkOf("MOHD"), Motx(first), Motx(second),
                                      ChunkOf("MOMT")>>]

TextureRoots ==
    {RootWith(table) : table \in StringTables}
    \cup {[RootWith(<<97, 0, 0, 0, 98, 200, 0>>) EXCEPT !.chunks[2].rev = TRUE],
          WmoBaseline(<<"MOHD", "MOMT">>),
          RootWithTwo(<<97, 0>>, <<120, 120, 0, 98, 0>>),
          RootWithTwo(<<97, 0, 0, 0, 98, 200, 0>>, <<97, 98, 0, 99, 0, 100, 0>>)}

MaxTextureOffset == 8

\* the renderer resolves a material's texture offset
LookupTexture ==
    /\ pc = "wmo"
    /\ lastOp.op = "parse_root"
    /\ \E motx_offset \in 0..MaxTextureOffset :
          /\ skinned' = get_texture_name(parser, motx_offset)
          /\ lastOp' = [lastOp EXCEPT !.op = "get_texture_name"]
                          @@ [motx_offset |-> motx_offset]
    /\ UNCHANGED <<pc, data, skin, parser, anim>>

NextTextures == WmoRootOn(TextureRoots) \/ LookupTexture

SpecTextures == Init /\ [][NextTextures]_vars

\* the string tables of root file d, in file order
TablesOf(d) ==
    SelectSeq(AsSeq([i \in 1..Len(d.chunks) |->
                        IF d.chunks[i].tag = "MOTX" THEN PayloadOf(d.chunks[i]) ELSE <<-1>>]),
              LAMBDA t : t # <<-1>>)

\* a non-empty NUL-terminated name starts at offset o of table: o is the start
\* of the table or follows a NUL, the byte at o is not NUL, and a NUL follows
NameStarts(table, o) ==
    /\ o < Len(table)
    /\ table[o + 1] # 0
    /\ o = 0 \/ table[o] = 0
    /\ \E e \in (o + 1)..(Len(table) - 1) : table[e + 1] = 0

\* that name: the bytes up to the first NUL, decoded
NameAt(table, o) ==
    DecodeAscii(SubSeq(table, o + 1,
        CHOOSE e \in (o + 1)..(Len(table) - 1) :
            table[e + 1] = 0 /\ \A x \in o..(e - 1) : table[x + 1] # 0))

NamedOffsets(table) == {o \in 0..(Len(table) - 1) : NameStarts(table, o)}

\* the names of table in table order
RECURSIVE NamesFrom(_, _)
NamesFrom(table, o) ==
    IF o >= Len(table) THEN <<>>
    ELSE IF NameStarts(table, o) THEN <<NameAt(table, o)>> \o NamesFrom(table, o + 1)
    ELSE NamesFrom(table, o + 1)

\* the parser resolves the offsets of `table`: the names are those of the
\* table in table order, a named offset maps to the index of its name, and a
\* lookup gives the name at a named offset and "" anywhere else
Resolves(p, table) ==
    /\ p.textures = NamesFrom(table, 0)
    /\ \A o \in NamedOffsets(table) :
          /\ DictGet(p.texture_offset_map, o) = Cardinality({x \in NamedOffsets(table) : x < o})
          /\ get_texture_name(p, o) = NameAt(table, o)
    /\ \A o \in (0..MaxTextureOffset) \ NamedOffsets(table) : get_texture_name(p, o) = <<>>

\* C28: after parse_root the map resolves the offsets of the string table of
\* the file (of no table when the file has none): get_texture_name(o) is the
\* name that starts at o, "" for every other offset, and index k of the map
\* is the k-th name of the table.  tex_idx starts at 0 in every string-table
\* chunk while the names of all of them go into one list.
C28_NamesByOffset ==
    (pc = "wmo" /\ lastOp.root \in TextureRoots)
        => \E table \in (IF TablesOf(lastOp.root) = <<>> THEN {<<>>}
                         ELSE {TablesOf(lastOp.root)[i] :
                                  i \in 1..Len(TablesOf(lastOp.root))}) :
              /\ Resolves(parser, table)
              /\ lastOp.op = "get_texture_name"
                    => skinned = get_texture_name(parser, lastOp.motx_offset)

(***************************************************************************)
(* The asset pipeline GUI (tools/asset_pipeline_gui.py).  run_extraction   *)
(* runs on the Tk main thread; the worker it starts runs on a thread of    *)
(* its own and the two interleave between statements.  Here `parser` holds *)
(* the AssetPipelineGUI object and `anim` the worker threads started so    *)
(* far, each with the statement it is at and the extractor it spawned.     *)
(***************************************************************************)
MaxWorkers == 2

\* AssetPipelineGUI after __init__; proc_thread and proc_process are 0 for
\* None and the number of the worker otherwise; after is Tk's queue of
\* root.after(0, ...) callbacks
AssetPipelineGUI ==
    [proc_thread |-> 0, proc_process |-> 0, proc_running |-> FALSE,
     status_var |-> "Ready", cancel_btn |-> "disabled",
     last_extract_ok |-> "none", after |-> <<>>]

\* a thread that start() has returned for and that has run no statement yet
NewWorker == [at |-> "created", process |-> "none", ok |-> FALSE]

NewGui ==
    /\ pc = "start"
    /\ pc' = "mainloop"
    /\ parser' = AssetPipelineGUI
    /\ anim' = <<>>
    /\ lastOp' = [op |-> "__init__"]
    /\ UNCHANGED <<data, skin, skinned>>

\* run_extraction, given whether build_extract_command finds the tools
run_extraction(self, threads, cmd_ok) ==
    IF self.proc_running THEN [gui |-> self, threads |-> threads, outcome |-> "already running"]
    ELSE IF ~cmd_ok THEN [gui |-> self, threads |-> threads, outcome |-> "cannot run"]
    ELSE [gui |-> [self EXCEPT !.cancel_btn = "normal", !.proc_thread = Len(threads) + 1],
          threads |-> Append(threads, NewWorker), outcome |-> "started"]

\* the "Run Extraction" button
RunExtraction ==
    /\ pc = "mainloop"
    /\ \E cmd_ok \in BOOLEAN :
        \E r \in {run_extraction(parser, anim, cmd_ok)} :
          /\ Len(r.threads) <= MaxWorkers
          /\ parser' = r.gui
          /\ anim' = r.threads
          /\ lastOp' = [op |-> "run_extraction", outcome |-> r.outcome]
    /\ UNCHANGED <<pc, data, skin, skinned>>

\* cancel_extraction: terminate() on the extractor the GUI knows of, if any
CancelExtraction ==
    /\ pc = "mainloop"
    /\ anim' = IF parser.proc_process # 0 /\ anim[parser.proc_process].process = "running"
               THEN [anim EXCEPT ![parser.proc_process].process = "terminated"]
               ELSE anim
    /\ parser' = IF parser.proc_process # 0
                 THEN [parser EXCEPT !.status_var = "Extraction cancelled"]
                 ELSE parser
    /\ lastOp' = [op |-> "cancel_extraction", outcome |-> parser.proc_process # 0]
    /\ UNCHANGED <<pc, data, skin, skinned>>

\* the main loop runs the oldest root.after callback
RunAfter ==
    /\ pc = "mainloop"
    /\ parser.after # <<>>
    /\ \E cb \in {Head(parser.after)} :
         parser' = [parser EXCEPT
                       !.after = Tail(@),
                       !.status_var = IF cb = "refresh" \/ cb = "disable" THEN @ ELSE cb,
                       !.cancel_btn = IF cb = "disable" THEN "disabled" ELSE @]
    /\ lastOp' = [op |-> "after", outcome |-> Head(parser.after)]
    /\ UNCHANGED <<pc, data, skin, anim, skinned>>

\* worker(): self.proc_running = True, the log line, the status callback
WorkerBegin(w) ==
    /\ anim[w].at = "created"
    /\ anim' = [anim EXCEPT ![w].at = "popen"]
    /\ parser' = [parser EXCEPT !.proc_running = TRUE,
                                !.after = Append(@, "Extraction running...")]
    /\ lastOp' = [op |-> "worker", outcome |-> "begin"]
    /\ UNCHANGED <<pc, data, skin, skinned>>

\* subprocess.Popen: the extractor runs, or Popen raises and the except
\* branch leads to finally
WorkerPopen(w) ==
    /\ anim[w].at = "popen"
    /\ \E spawned \in BOOLEAN :
          /\ anim' = IF spawned
                     THEN [anim EXCEPT ![w].at = "publish", ![w].process = "running"]
                     ELSE [anim EXCEPT ![w].at = "finally"]
          /\ lastOp' = [op |-> "worker", outcome |-> IF spawned THEN "spawned" ELSE "error"]
    /\ UNCHANGED <<pc, data, skin, parser, skinned>>

\* self.proc_process = process
WorkerPublish(w) ==
    /\ anim[w].at = "publish"
    /\ anim' = [anim EXCEPT ![w].at = "reading"]
    /\ parser' = [parser EXCEPT !.proc_process = w]
    /\ lastOp' = [op |-> "worker", outcome |-> "publish"]
    /\ UNCHANGED <<pc, data, skin, skinned>>

\* the output is read to its end and process.wait() gives the exit status
WorkerWait(w) ==
    /\ anim[w].at = "reading"
    /\ \E rc \in (IF anim[w].process = "terminated" THEN {-15} ELSE {0, 1}) :
          /\ anim' = [anim EXCEPT ![w].at = "finally", ![w].process = "exited",
                                  ![w].ok = (rc = 0)]
          /\ lastOp' = [op |-> "worker", outcome |-> rc]
    /\ UNCHANGED <<pc, data, skin, parser, skinned>>

\* finally: self.proc_process = None and the state file
WorkerFinally(w) ==
    /\ anim[w].at = "finally"
    /\ anim' = [anim EXCEPT ![w].at = "clear_running"]
    /\ parser' = [parser EXCEPT !.proc_process = 0, !.last_extract_ok = anim[w].ok]
    /\ lastOp' = [op |-> "worker", outcome |-> "finally"]
    /\ UNCHANGED <<pc, data, skin, skinned>>

\* self.proc_running = False and the three callbacks
WorkerFinish(w) ==
    /\ anim[w].at = "clear_running"
    /\ anim' = [anim EXCEPT ![w].at = "done"]
    /\ parser' = [parser EXCEPT
                    !.proc_running = FALSE,
                    !.after = @ \o <<"refresh", "disable",
                                     IF anim[w].ok THEN "Extraction complete"
                                     ELSE "Extraction failed">>]
    /\ lastOp' = [op |-> "worker", outcome |-> "done"]
    /\ UNCHANGED <<pc, data, skin, skinned>>

WorkerStep ==
    /\ pc = "mainloop"
    /\ \E w \in 1..Len(anim) :
          \/ WorkerBegin(w)
          \/ WorkerPopen(w)
          \/ WorkerPublish(w)
          \/ WorkerWait(w)
          \/ WorkerFinally(w)
          \/ WorkerFinish(w)

NextExtraction == NewGui \/ RunExtraction \/ CancelExtraction \/ RunAfter \/ WorkerStep

SpecExtraction == Init /\ [][NextExtraction]_vars

\* the worker threads that have not returned, the extractors that run
LiveWorkers == {w \in 1..Len(anim) : anim[w].at # "done"}
LiveExtractors == {w \in 1..Len(anim) : anim[w].process \in {"running", "terminated"}}

\* C29: at most one extraction at a time: never two worker threads that have
\* not returned, never two extractor subprocesses.  The flag run_extraction
\* tests is raised by the worker, not by the request that starts it.
C29_OneExtraction ==
    pc = "mainloop" => Cardinality(LiveWorkers) <= 1 /\ Cardinality(LiveExtractors) <= 1

(***************************************************************************)
(* The asset browser's WMO preview (tools/asset_pipeline_gui.py):          *)
(* _parse_wmo_group reads the vertices and triangles of a group file for   *)
(* the wireframe.  `data` holds the bytes of the file selected and         *)
(* `skinned` what the preview got from the parser.                         *)
(***************************************************************************)
\* bytes.isupper() of chunk_id[:1]: one ASCII capital
IsUpper(b) == Len(b) >= 1 /\ b[1] \in 65..90

\* cid = chunk_id if chunk_id[:1].isupper() else chunk_id[::-1]
PreviewCid(chunk_id) == IF IsUpper(BytesSlice(chunk_id, 0, 1)) THEN chunk_id ELSE Reverse(chunk_id)

PreviewOk(verts, tris) == [raised |-> FALSE, verts |-> verts, tris |-> tris]
PreviewRaised == [raised |-> TRUE, verts |-> <<>>, tris |-> <<>>]

\* range(0, n - 2, 3)
TriStarts(n) == {i \in 0..(n - 3) : i % 3 = 0}

\* the triangles of idx_list, three indices at a time
Triangles(buf, chunk_data_start, n) ==
    AsSeq([k \in 1..Cardinality(TriStarts(n)) |->
              <<U16(buf, chunk_data_start + 6 * (k - 1)),
                U16(buf, chunk_data_start + 6 * (k - 1) + 2),
                U16(buf, chunk_data_start + 6 * (k - 1) + 4)>>])

\* the while loop of _parse_wmo_group from pos on; struct.unpack_from raises
\* when what it is asked for does not lie inside the buffer
RECURSIVE PreviewLoop(_, _, _, _), PreviewChunk(_, _, _, _, _, _)
PreviewLoop(buf, verts, tris, pos) ==
    IF ~(pos < Len(buf) - 8) THEN PreviewOk(verts, tris)
    ELSE PreviewChunk(buf, verts, tris, PreviewCid(BytesSlice(buf, pos, pos + 4)),
                      pos + 8, U32(buf, pos + 4))

PreviewChunk(buf, verts, tris, cid, chunk_data_start, chunk_size) ==
    IF cid = Tag.MOVT
    THEN IF chunk_size \div 12 > 0 /\ ~CanUnpack(buf, chunk_data_start, (chunk_size \div 12) * 12)
         THEN PreviewRaised
         ELSE PreviewLoop(buf,
                          verts \o AsSeq([i \in 1..(chunk_size \div 12) |->
                                             Vec3F(buf, chunk_data_start + (i - 1) * 12)]),
                          tris, chunk_data_start + chunk_size)
    ELSE IF cid = Tag.MOVI
    THEN IF ~CanUnpack(buf, chunk_data_start, (chunk_size \div 2) * 2)
         THEN PreviewRaised
         ELSE PreviewLoop(buf, verts,
                          tris \o Triangles(buf, chunk_data_start, chunk_size \div 2),
                          chunk_data_start + chunk_size)
    ELSE PreviewLoop(buf, verts, tris, chunk_data_start + chunk_size)

\* _parse_wmo_group on the bytes of the file
parse_wmo_group(buf) == PreviewLoop(buf, <<>>, <<>>, 0)

\* the index chunk with n indices 0, 1, ..., n - 1
Movi(n) == ChunkOf("MOVI") @@ [payload |-> Concat(AsSeq([i \in 1..n |-> E16(i - 1)]))]

\* the group files of the preview: every choice of reversed tags, with and
\* without the MOGP chunk; index chunks of 0 to 7 indices; a sub-chunk past
\* the end; a file that ends inside a chunk
PreviewChunkLists ==
    {<<"MOVT", "MOVI", "MONR">>, <<"MOVI", "MOVT">>, <<"MONR", "MOVT", "MOVI", "MOBA">>,
     <<"MOVT">>, <<"MOVI">>, <<"MVER", "MOVT", "MOVI">>}

RevMasks(d) ==
    {[d EXCEPT !.chunks = AsSeq([i \in 1..Len(d.chunks) |->
                                    [d.chunks[i] EXCEPT !.rev = (i \in mask)]])] :
        mask \in SUBSET (1..Len(d.chunks))}

PreviewFiles ==
    UNION {RevMasks([WmoBaseline(tags) EXCEPT !.mogp = mogp]) :
              tags \in PreviewChunkLists, mogp \in {"none", "fwd"}}
    \cup UNION {RevMasks([WmoBaseline(<<"MOVT">>) EXCEPT !.chunks = <<ChunkOf("MOVT"), Movi(n)>>]) :
                   n \in 0..7}
    \cup UNION {RevMasks(d) : d \in Oversized(WmoBaseline(<<"MOVT", "MOVI">>))}
    \cup UNION {RevMasks([WmoBaseline(<<"MOVT", "MOVI">>) EXCEPT !.cut = c]) : c \in {0, 8, 9, 30, 40}}

\* the browser selects a group file
SelectGroupFile ==
    /\ pc \in {"start", "browser", "previewed"}
    /\ pc' = "browser"
    /\ \E d \in PreviewFiles :
          /\ data' = WmoFile(d)
          /\ lastOp' = [op |-> "select", file |-> d]
    /\ skinned' = None
    /\ UNCHANGED <<skin, parser, anim>>

\* the preview parses it; an exception is shown as "WMO parse error"
PreviewWmo ==
    /\ pc = "browser"
    /\ pc' = "previewed"
    /\ skinned' = parse_wmo_group(data)
    /\ lastOp' = [lastOp EXCEPT !.op = "_parse_wmo_group"]
    /\ UNCHANGED <<data, skin, parser, anim>>

NextPreview == SelectGroupFile \/ PreviewWmo

SpecPreview == Init /\ [][NextPreview]_vars

\* a file of the preview with one of its MOVT/MOVI tags stored reversed
GeometryTagReversed(d) ==
    \E i \in 1..Len(d.chunks) : d.chunks[i].tag \in {"MOVT", "MOVI"} /\ d.chunks[i].rev

\* C30: a group file with reversed MOVT/MOVI tags gives the preview the
\* vertices and triangles of the same file with forward tags.  The tag is
\* turned round only when its first byte is no capital letter, and the first
\* byte of TVOM and IVOM is one.
C30_ReversedAsForward ==
    (pc = "previewed" /\ GeometryTagReversed(lastOp.file))
        => skinned = parse_wmo_group(WmoFile(Forward(lastOp.file)))

====
